---- MODULE Spec2Model ----
(***************************************************************************)
(* A model of the factForge backend: the enrichment worker, the ingest     *)
(* worker, the review endpoints, the audit log and the check endpoint.     *)
(* Rows of a table are kept in insertion order; the primary key of a row   *)
(* (a UUID in the code) is its index in that order, and created_at grows   *)
(* with the index.                                                         *)
(***************************************************************************)
EXTENDS Integers, Sequences, FiniteSets, TLC

VARIABLES
    crawl_queue,     \* messages waiting in the broker queue crawl.items
    ingest_queue,    \* messages waiting in the broker queue ingest.queue
    crawl_acks,      \* what the enrichment worker answered the broker, per message
    ingest_acks,     \* what the ingest worker answered the broker, per message
    crawled_items,   \* table crawled_items
    vectors,         \* table vectors
    milvus,          \* entities of the Milvus collection factforge_vectors
    review_queue,    \* table review_queue
    audit_logs,      \* table audit_logs
    audit_orig,      \* history: every audit row as it was appended, with the key
                     \* and the payload the caller passed
    HMAC_KEY,        \* the process-wide signing key
    verify_log,      \* history: the last answer of verify_audit_signature per row
    calls,           \* the review requests, in flight and answered
    npublished,      \* how many crawl messages the fetcher has published
    enrich_worker,   \* the enrichment worker: where it is in its callback
    ingest_worker,   \* the ingest worker: where it is in its callback
    nfaults,         \* how many failures of a dependency have happened
    ntamper,         \* how many times a stored audit row has been modified
    cleanup,         \* the audit cleanup request: where it is, what it deleted
    llm_service,     \* the UnifiedLLMService singleton of the API process
    vertex_global,   \* the VertexAIService singleton: "none", "loaded", "nomodel"
    ollama_up,       \* whether the Ollama server answers its probe
    last_check,      \* history: the response of the last check request
    primary_failed,  \* history: the selected provider whose call failed first
                     \* since the last explicit switch, NULL if none did
    nchecks,         \* how many check requests have been made
    nswitches,       \* how many provider switch requests have been made
    last_switch,     \* history: the last switch_provider call and what it returned
    check_tasks,     \* the background audit tasks of the check requests
    llm_status,      \* the last answer of GET /admin/llm/status
    model_versions,  \* table model_versions: committed rows, index = id
    model_calls,     \* model-configuration updates in flight
    nupdates,        \* how many model-configuration updates were requested
    active_connections, \* ConnectionManager.active_connections (a list)
    user_connections,   \* ConnectionManager.user_connections (a dict of sets)
    role_connections,   \* ConnectionManager.role_connections (a dict of sets)
    handlers,        \* per WebSocket accepted, handle_connection's user_id and role
                     \* and the socket's client_state
    received,        \* per WebSocket, the messages its client received
    subscribed,      \* history: per WebSocket, its last subscribe message
    nmessages,       \* how many inbound messages were handled
    sends,           \* the send_event calls, in flight and finished
    nevents,         \* how many events were sent
    queue_call,      \* the GET /review/queue request in flight
    last_page,       \* the last response of GET /review/queue
    paged,           \* history: the client's filter and the pages it got so far
    npages           \* how many pages were requested

vars == <<crawl_queue, ingest_queue, crawl_acks, ingest_acks, crawled_items,
          vectors, milvus, review_queue, audit_logs, audit_orig, HMAC_KEY,
          verify_log, calls, npublished, enrich_worker, ingest_worker, nfaults,
          ntamper, cleanup, llm_service,
          vertex_global, ollama_up, last_check, primary_failed, nchecks,
          nswitches, last_switch, check_tasks, llm_status, model_versions,
          model_calls, nupdates,
          active_connections, user_connections, role_connections, handlers,
          received, subscribed, nmessages, sends, nevents, queue_call,
          last_page, paged, npages>>

pipelineVars == <<crawl_queue, ingest_queue, crawl_acks, ingest_acks,
                  crawled_items, vectors, milvus, npublished, enrich_worker,
                  ingest_worker>>
reviewVars == <<review_queue, calls>>
auditVars == <<audit_logs, audit_orig, HMAC_KEY, verify_log, ntamper, cleanup>>
checkVars == <<llm_service, vertex_global, ollama_up, last_check, primary_failed,
              nchecks, nswitches, last_switch, check_tasks, llm_status>>
adminVars == <<model_versions, model_calls, nupdates>>
pagingVars == <<queue_call, last_page, paged, npages>>
busVars == <<active_connections, user_connections, role_connections, handlers,
            received, subscribed, nmessages, sends, nevents>>

-----------------------------------------------------------------------------
(* Bounds of the model *)

MaxCrawl == 2        \* crawl messages the fetcher publishes
MaxCalls == 2        \* review requests issued
MaxFaults == 1       \* failures of a dependency (database, broker, Milvus)
MaxAudit == 2        \* audit rows appended in the audit specification
MaxTamper == 2       \* modifications of stored audit rows
MaxChecks == 2       \* check requests
MaxSwitches == 1     \* provider switch requests
MaxCheckOnly == 1    \* check requests when every request and answer is tried
MaxUpdates == 3      \* model-configuration updates
MaxSockets == 2      \* WebSocket connections accepted
MaxEvents == 2       \* events sent on the bus and inbound messages handled
MaxPages == 3        \* pages of the review queue requested
MaxCleanups == 1     \* audit cleanup requests

Urls == {"u1", "u2"}
Languages == {"en", "hi"}
Reviewers == {"alice", "bob"}
NULL == "null"

\* classifier scores in hundredths: benign; review with the low priority;
\* scam for hi and review with the high priority for en
Scores == {50, 60, 90}

-----------------------------------------------------------------------------
(* Helpers on sequences *)

Indices(s) == 1..Len(s)

\* Failures of dependencies: each flag that is FALSE is one failure.
Failed(ok) == IF ok THEN 0 ELSE 1
Fault(n) ==
    /\ nfaults + n <= MaxFaults
    /\ nfaults' = nfaults + n

-----------------------------------------------------------------------------
(* Audit log: api/app/core/audit.py *)

\* The payload keys of the model in the order Python sorts them (by code point).
KeyOrder == <<"action", "assigned_to", "changes", "cleaned_by", "counts",
              "deleted_count", "doc_id", "error",
              "language", "method", "model_id", "new_provider", "note", "path",
              "request_id", "retention_days", "review_id", "reviewer_id", "switched_by",
              "trust_score", "updated_by", "verdict">>
PayloadKeys == {KeyOrder[i] : i \in 1..Len(KeyOrder)}

\* A payload is a Python dict: a sequence of <<key, value>> pairs in insertion
\* order, with distinct string keys. The value under the key counts is a dict
\* itself, [int_keys, items]: its items are <<key, value>> pairs in insertion
\* order, and its keys are all integers (int_keys) or all strings. Every
\* other value is a string.
KeysOf(payload) == {payload[i][1] : i \in Indices(payload)}
ValueOf(payload, k) == payload[CHOOSE i \in Indices(payload) : payload[i][1] = k][2]
NestedKey == "counts"

\* Pydantic checks a regex with re.match, and $ matches at the end of the
\* string and also just before a newline that ends the string.
Newline == "\n"

\* The keys of a nested dict in the order sorted() puts them: integers by
\* value, strings by code point.
IntKeyOrder == <<2, 10>>
StrKeyOrder == <<"10", "2">>

\* The JSON text of a dict key: json.dumps writes an integer key as the
\* string of its digits.
JsonKey(d, k) == IF d.int_keys THEN ToString(k) ELSE k

\* json.dumps of a nested dict without sort_keys, and with sort_keys=True
\* (the items are sorted by the keys they have in Python, then written).
DumpsNested(d) ==
    [i \in Indices(d.items) |-> <<JsonKey(d, d.items[i][1]), d.items[i][2]>>]
DumpsNestedSorted(d) ==
    LET ks == SelectSeq(IF d.int_keys THEN IntKeyOrder ELSE StrKeyOrder,
                        LAMBDA k : k \in KeysOf(d.items))
    IN  [i \in 1..Len(ks) |-> <<JsonKey(d, ks[i]), ValueOf(d.items, ks[i])>>]

\* json.dumps without sort_keys: the pairs in insertion order.
canonical_json_insertion_order(payload) ==
    [i \in Indices(payload) |->
        <<payload[i][1],
          IF payload[i][1] = NestedKey THEN DumpsNested(payload[i][2])
          ELSE payload[i][2]>>]

\* json.dumps(payload, sort_keys=True, ensure_ascii=False): the pairs by key,
\* at every level.
canonical_json(payload) ==
    LET ks == SelectSeq(KeyOrder, LAMBDA k : k \in KeysOf(payload))
    IN  [i \in 1..Len(ks) |->
            <<ks[i],
              IF ks[i] = NestedKey THEN DumpsNestedSorted(ValueOf(payload, ks[i]))
              ELSE ValueOf(payload, ks[i])>>]

\* hmac.new(key, msg, sha256).hexdigest(): a keyed digest, taken as free of
\* collisions, so that it is the pair of what went into it.
hmac_new(key, msg) == <<key, msg>>

sign_payload(payload) == hmac_new(HMAC_KEY, canonical_json(payload))

\* Column(JSON): the payload as a session reads it back from the table. It
\* is written with json.dumps and read with json.loads, so the keys of the
\* dicts come back as the strings they were written as.
JsonColumn(payload) ==
    [i \in Indices(payload) |->
        <<payload[i][1],
          IF payload[i][1] = NestedKey
          THEN [int_keys |-> FALSE, items |-> DumpsNested(payload[i][2])]
          ELSE payload[i][2]>>]

\* A row of audit_logs: the signature is computed from the payload the caller
\* passed, the payload column holds what the table gives back. A row keeps
\* its place in the table when it is deleted, so that the ids of the other
\* rows stay what they were.
AuditLogRow(event_type, payload) ==
    [event_type |-> event_type, payload |-> JsonColumn(payload),
     signature |-> sign_payload(payload), deleted |-> FALSE]

\* The rows a query of audit_logs finds.
AuditIds == {a \in Indices(audit_logs) : ~audit_logs[a].deleted}

\* create_audit_entry: sign, insert, commit.
create_audit_entry(event_type, payload) ==
    /\ audit_logs' = Append(audit_logs, AuditLogRow(event_type, payload))
    /\ audit_orig' = Append(audit_orig,
                            [row |-> AuditLogRow(event_type, payload),
                             key |-> HMAC_KEY, payload |-> payload])

NoCleanup == [pc |-> "idle", deleted_count |-> 0, days |-> 0, made |-> 0]

\* cleanup_old_audit_logs: DELETE FROM audit_logs WHERE created_at < cutoff.
\* Rows are in the order of their created_at, so the rows before the cutoff
\* are the first ones of the table.
\*   older: how many rows of the table were created before the cutoff
RowsBefore(older) == {a \in AuditIds : a <= older}
cleanup_old_audit_logs(older) ==
    [a \in Indices(audit_logs) |->
        IF a \in RowsBefore(older) THEN [audit_logs[a] EXCEPT !.deleted = TRUE]
        ELSE audit_logs[a]]

\* verify_audit_signature: False for an unknown id, else the stored signature
\* against the signature recomputed from the stored payload.
verify_audit_signature(audit_id) ==
    IF audit_id \notin AuditIds
    THEN FALSE
    ELSE audit_logs[audit_id].signature = sign_payload(audit_logs[audit_id].payload)

-----------------------------------------------------------------------------
(* Enrichment worker: workers/enrichment_worker/main.py *)

NullScore == -1      \* classifier_score IS NULL

\* The text of a crawl message: which fetch produced it and the language it
\* is written in.
detect_language(text) == text.lang

\* The fetcher publishes a crawl.items message (RabbitMQPipeline.process_item).
PublishCrawl(url, lang) ==
    /\ npublished < MaxCrawl
    /\ npublished' = npublished + 1
    /\ crawl_queue' = Append(crawl_queue,
                             [url |-> url, text |-> [v |-> npublished + 1, lang |-> lang]])
    /\ UNCHANGED <<ingest_queue, crawl_acks, ingest_acks, crawled_items, vectors,
                   milvus, enrich_worker, ingest_worker, nfaults>>
    /\ UNCHANGED <<reviewVars, auditVars, checkVars, adminVars,
                   busVars, pagingVars>>

\* What steps 1 to 8 of process_crawled_item meet: whether the HTML file of
\* the message is missing, can be read, or exists and cannot be read (open or
\* read raises), whether the screenshot exists, and whether OCR, the WHOIS
\* lookup and image hashing go through (each of these catches its exception
\* and returns an empty result).
EnrichSteps == [html : {"missing", "readable", "unreadable"}, screenshot : BOOLEAN,
                ocr_ok : BOOLEAN, whois_ok : BOOLEAN, hash_ok : BOOLEAN]
AllFine == [html |-> "readable", screenshot |-> TRUE, ocr_ok |-> TRUE,
            whois_ok |-> TRUE, hash_ok |-> TRUE]
ImageHashes == 4     \* average, perceptual, difference and wavelet hash

\* store_processed_item: INSERT INTO crawled_items; label takes the column
\* default and classifier_score is NULL.
NewCrawledItem(msg, steps) ==
    [url |-> msg.url, clean_text |-> msg.text,
     from_html |-> steps.html = "readable",
     with_ocr |-> steps.screenshot /\ steps.ocr_ok,
     whois_data |-> IF steps.whois_ok THEN "whois" ELSE "empty",
     image_hashes |-> IF steps.screenshot /\ steps.hash_ok THEN ImageHashes ELSE 0,
     language |-> detect_language(msg.text),
     label |-> "pending", classifier_score |-> NullScore]

\* The enrichment worker between two messages, and while it holds one:
\* pc is "stored" after store_processed_item committed, "sent" after
\* send_to_ingest_queue returned and "failed" when process_crawled_item is
\* about to return False.
EnrichIdle ==
    [pc |-> "idle", url |-> NULL, language |-> NULL, forwarded |-> FALSE,
     persist_failed |-> FALSE, degraded |-> FALSE]

\* The broker hands the head of crawl.items to the callback (it stays
\* unanswered), and process_crawled_item runs up to the end of
\* store_processed_item, whose INSERT commits on a connection of its own.
\*   steps: what steps 1 to 8 meet
\*   db_ok: the INSERT commits (else it raises: return False)
process_crawled_item(steps, db_ok) ==
    /\ enrich_worker.pc = "idle"
    /\ crawl_queue # <<>>
    /\ steps.screenshot \/ (steps.ocr_ok /\ steps.hash_ok)
    /\ steps.html = "unreadable" => db_ok
    /\ Fault(Failed(db_ok))
    /\ LET msg == Head(crawl_queue)
           stored == steps.html # "unreadable" /\ db_ok
       IN
       /\ crawl_queue' = Tail(crawl_queue)
       /\ crawled_items' = IF stored
                           THEN Append(crawled_items, NewCrawledItem(msg, steps))
                           ELSE crawled_items
       /\ enrich_worker' =
            [pc |-> IF stored THEN "stored" ELSE "failed",
             url |-> msg.url, language |-> detect_language(msg.text),
             forwarded |-> FALSE, persist_failed |-> ~db_ok,
             degraded |-> steps # AllFine]
    /\ UNCHANGED <<ingest_queue, crawl_acks, ingest_acks, vectors, milvus,
                   npublished, ingest_worker>>
    /\ UNCHANGED <<reviewVars, auditVars, checkVars, adminVars,
                   busVars, pagingVars>>

\* send_to_ingest_queue: publish on a broker connection of its own.
\*   publish_ok: the publish goes through (else the error is logged inside
\*               the function and process_crawled_item returns True all the same)
send_to_ingest_queue(publish_ok) ==
    /\ enrich_worker.pc = "stored"
    /\ Fault(Failed(publish_ok))
    /\ ingest_queue' =
         IF publish_ok
         THEN Append(ingest_queue,
                     [url |-> enrich_worker.url, language |-> enrich_worker.language])
         ELSE ingest_queue
    /\ enrich_worker' = [enrich_worker EXCEPT !.pc = "sent", !.forwarded = publish_ok]
    /\ UNCHANGED <<crawl_queue, crawl_acks, ingest_acks, crawled_items, vectors,
                   milvus, npublished, ingest_worker>>
    /\ UNCHANGED <<reviewVars, auditVars, checkVars, adminVars,
                   busVars, pagingVars>>

\* The callback answers the broker: basic_ack when process_crawled_item
\* returned True, basic_nack without requeue when it returned False.
EnrichCallbackAnswer ==
    /\ enrich_worker.pc \in {"sent", "failed"}
    /\ crawl_acks' = Append(crawl_acks,
         [url |-> enrich_worker.url,
          answer |-> IF enrich_worker.pc = "sent" THEN "ack" ELSE "nack",
          forwarded |-> enrich_worker.forwarded,
          persist_failed |-> enrich_worker.persist_failed,
          degraded |-> enrich_worker.degraded])
    /\ enrich_worker' = EnrichIdle
    /\ UNCHANGED <<crawl_queue, ingest_queue, ingest_acks, crawled_items, vectors,
                   milvus, npublished, ingest_worker, nfaults>>
    /\ UNCHANGED <<reviewVars, auditVars, checkVars, adminVars,
                   busVars, pagingVars>>

-----------------------------------------------------------------------------
(* Ingest worker: workers/ingest_worker/main.py *)

\* self.thresholds, in hundredths; thresholds.get(language, 0.9)
ThresholdEn == 92
ThresholdIndic == 90
ReviewFloor == 60            \* elif classifier_score >= 0.6
PriorityCut == 80            \* priority = 5 if score > 0.8 else 3
PriorityHigh == 5
PriorityLow == 3
Threshold(language) == IF language = "en" THEN ThresholdEn ELSE ThresholdIndic

\* SELECT ... WHERE url = %s ORDER BY created_at DESC LIMIT 1: the id of the
\* latest row of the URL, 0 when there is none.
LatestItem(url) ==
    LET ids == {i \in Indices(crawled_items) : crawled_items[i].url = url}
    IN  IF ids = {} THEN 0 ELSE CHOOSE i \in ids : \A j \in ids : j <= i

\* A routing that takes a score equal to the threshold for a review case.
RouteLabel_above_threshold(score, language) ==
    IF score > Threshold(language) THEN "scam"
    ELSE IF score >= ReviewFloor THEN "pending"
    ELSE "benign"

\* The label process_ingest_item decides for a score.
RouteLabel(score, language) ==
    IF score >= Threshold(language) THEN "scam"
    ELSE IF score >= ReviewFloor THEN "pending"
    ELSE "benign"

\* add_to_review_queue: INSERT INTO review_queue (doc_id, status, priority, note)
NewReviewEntry(doc_id, score) ==
    [doc_id |-> doc_id, assigned_to |-> NULL, status |-> "pending",
     priority |-> IF score > PriorityCut THEN PriorityHigh ELSE PriorityLow]

\* store_vector_mapping: INSERT INTO vectors (doc_id, embedding_id, milvus_id, ...)
NewVectorRow(doc_id, vector_id) ==
    [doc_id |-> doc_id, milvus_id |-> vector_id]

\* UPDATE crawled_items SET label = %s, classifier_score = %s WHERE id = %s
UpdateItem(items, doc_id, label, score) ==
    [items EXCEPT ![doc_id] = [@ EXCEPT !.label = label, !.classifier_score = score]]

\* The ingest worker between two messages, and while it holds one: pc is
\* "selected" once the item is found and classified, "inserted" after the
\* Milvus insert, "sided" when the side write of the label (vector or review
\* entry) is behind it, "updated" after the commit of the UPDATE and "failed"
\* when process_ingest_item is about to return False.
IngestIdle ==
    [pc |-> "idle", url |-> NULL, language |-> NULL, doc_id |-> 0,
     score |-> NullScore, label |-> NULL, vid |-> 0, insert_failed |-> FALSE,
     side_written |-> FALSE]

\* The broker hands the head of ingest.queue to the callback, and
\* process_ingest_item connects, SELECTs the latest item of the URL and
\* classifies its text.
\*   select_ok: the connect and the SELECT go through (else the exception is
\*              caught at the end of process_ingest_item: return False)
\*   score:     what classify_text returned
process_ingest_item(select_ok, score) ==
    /\ ingest_worker.pc = "idle"
    /\ ingest_queue # <<>>
    /\ Fault(Failed(select_ok))
    /\ LET msg    == Head(ingest_queue)
           doc_id == IF select_ok THEN LatestItem(msg.url) ELSE 0
       IN
       /\ ingest_queue' = Tail(ingest_queue)
       /\ ingest_worker' =
            IF doc_id = 0
            THEN [IngestIdle EXCEPT !.pc = "failed", !.url = msg.url,
                                    !.language = msg.language]
            ELSE [IngestIdle EXCEPT !.pc = "selected", !.url = msg.url,
                                    !.language = msg.language, !.doc_id = doc_id,
                                    !.score = score,
                                    !.label = RouteLabel(score, msg.language)]
    /\ UNCHANGED <<crawl_queue, crawl_acks, ingest_acks, crawled_items, vectors,
                   milvus, npublished, enrich_worker>>
    /\ UNCHANGED <<reviewVars, auditVars, checkVars, adminVars,
                   busVars, pagingVars>>

\* store_vector up to its flush, for a scam item.
\*   milvus_ok: the collection is there and insert and flush go through (else
\*              store_vector logs and returns None, and no mapping is written)
store_vector(milvus_ok) ==
    /\ ingest_worker.pc = "selected" /\ ingest_worker.label = "scam"
    /\ Fault(Failed(milvus_ok))
    /\ LET vid == Len(milvus) + 1 IN
       /\ milvus' = IF milvus_ok
                    THEN Append(milvus, [id |-> vid, doc_id |-> ingest_worker.doc_id])
                    ELSE milvus
       /\ ingest_worker' =
            IF milvus_ok
            THEN [ingest_worker EXCEPT !.pc = "inserted", !.vid = vid]
            ELSE [ingest_worker EXCEPT !.pc = "sided", !.insert_failed = TRUE]
    /\ UNCHANGED <<crawl_queue, ingest_queue, crawl_acks, ingest_acks, crawled_items,
                   vectors, npublished, enrich_worker>>
    /\ UNCHANGED <<reviewVars, auditVars, checkVars, adminVars,
                   busVars, pagingVars>>

\* store_vector_mapping: the INSERT into vectors on a connection of its own.
\*   side_ok: the INSERT commits (else the error is logged inside the function)
store_vector_mapping(side_ok) ==
    /\ ingest_worker.pc = "inserted"
    /\ Fault(Failed(side_ok))
    /\ vectors' = IF side_ok
                  THEN Append(vectors,
                              NewVectorRow(ingest_worker.doc_id, ingest_worker.vid))
                  ELSE vectors
    /\ ingest_worker' = [ingest_worker EXCEPT !.pc = "sided",
                                              !.insert_failed = ~side_ok,
                                              !.side_written = side_ok]
    /\ UNCHANGED <<crawl_queue, ingest_queue, crawl_acks, ingest_acks, crawled_items,
                   milvus, npublished, enrich_worker>>
    /\ UNCHANGED <<reviewVars, auditVars, checkVars, adminVars,
                   busVars, pagingVars>>

\* add_to_review_queue, for an item to review: the INSERT into review_queue on
\* a connection of its own.
\*   side_ok: the INSERT commits (else the error is logged inside the function)
add_to_review_queue(side_ok) ==
    /\ ingest_worker.pc = "selected" /\ ingest_worker.label = "pending"
    /\ Fault(Failed(side_ok))
    /\ review_queue' =
         IF side_ok
         THEN Append(review_queue,
                     NewReviewEntry(ingest_worker.doc_id, ingest_worker.score))
         ELSE review_queue
    /\ ingest_worker' = [ingest_worker EXCEPT !.pc = "sided",
                                              !.insert_failed = ~side_ok,
                                              !.side_written = side_ok]
    /\ UNCHANGED <<crawl_queue, ingest_queue, crawl_acks, ingest_acks, crawled_items,
                   vectors, milvus, npublished, enrich_worker, calls>>
    /\ UNCHANGED <<auditVars, checkVars, adminVars, busVars, pagingVars>>

\* The UPDATE of crawled_items and the commit of process_ingest_item's own
\* connection.
\*   update_ok: UPDATE and commit go through (else return False)
update_item_classification(update_ok) ==
    /\ \/ ingest_worker.pc = "sided"
       \/ ingest_worker.pc = "selected" /\ ingest_worker.label = "benign"
    /\ Fault(Failed(update_ok))
    /\ crawled_items' =
         IF update_ok
         THEN UpdateItem(crawled_items, ingest_worker.doc_id, ingest_worker.label,
                         ingest_worker.score)
         ELSE crawled_items
    /\ ingest_worker' = [ingest_worker EXCEPT
                           !.pc = IF update_ok THEN "updated" ELSE "failed"]
    /\ UNCHANGED <<crawl_queue, ingest_queue, crawl_acks, ingest_acks, vectors,
                   milvus, npublished, enrich_worker>>
    /\ UNCHANGED <<reviewVars, auditVars, checkVars, adminVars,
                   busVars, pagingVars>>

\* The callback answers the broker: basic_ack when process_ingest_item
\* returned True, basic_nack without requeue when it returned False.
IngestCallbackAnswer ==
    /\ ingest_worker.pc \in {"updated", "failed"}
    /\ ingest_acks' = Append(ingest_acks,
         [url |-> ingest_worker.url,
          answer |-> IF ingest_worker.pc = "updated" THEN "ack" ELSE "nack",
          insert_failed |-> ingest_worker.insert_failed,
          score |-> ingest_worker.score,
          label |-> ingest_worker.label,
          side_written |-> ingest_worker.side_written])
    /\ ingest_worker' = IngestIdle
    /\ UNCHANGED <<crawl_queue, ingest_queue, crawl_acks, crawled_items, vectors,
                   milvus, npublished, enrich_worker, nfaults>>
    /\ UNCHANGED <<reviewVars, auditVars, checkVars, adminVars,
                   busVars, pagingVars>>

-----------------------------------------------------------------------------
(* Review endpoints: api/app/routes/review.py *)

\* ReviewAction.action: a string the pattern ^(approve|reject|escalate)$
\* matches, which is one of the three names or one of them before a newline.
ActionNames == {"approve", "reject", "escalate"}
Actions == ActionNames \cup {name \o Newline : name \in ActionNames}
EscalatedPriority == 10                          \* review_item.priority = 10
\* The review_id of a request: the id of a row, or the next id (no such row).
ReviewIdInputs == 1..(Len(review_queue) + 1)

\* What a handler's session has loaded: the review row, and the label of its
\* crawled item once that was read (NULL before).
LoadedRow(rid) ==
    [status      |-> review_queue[rid].status,
     assigned_to |-> review_queue[rid].assigned_to,
     priority    |-> review_queue[rid].priority,
     doc_id      |-> review_queue[rid].doc_id,
     label       |-> NULL]

NoSnapshot ==
    [status |-> NULL, assigned_to |-> NULL, priority |-> 0, doc_id |-> 0, label |-> NULL]

NewCall(user, op, action, rid, pc, seen, result) ==
    [user |-> user, op |-> op, action |-> action, rid |-> rid, pc |-> pc,
     seen |-> seen, result |-> result]

\* The session flushes an UPDATE holding only the attributes whose assigned
\* value differs from the loaded one; the row keeps the rest as stored.
Flush(stored, loaded, assigned) == IF assigned = loaded THEN stored ELSE assigned

\* general_exception_handler's audit payload for a request that raised.
ErrorPayload(path, method) ==
    << <<"error", "audit">>, <<"path", path>>, <<"method", method>> >>
ReviewPath(c) == ToString(<<"review", c.rid, c.op>>)

\* create_audit_entry run as a BackgroundTasks task, after the response of
\* the request was sent. When it raises, the exception leaves the task and
\* general_exception_handler tries to append an 'error' entry; the client has
\* its response already.
\*   audit_ok: the task's audit INSERT commits
\*   error_ok: the exception handler's audit INSERT commits (the failure of
\*             both is one failure of the audit table)
BackgroundAudit(event_type, payload, path, audit_ok, error_ok) ==
    /\ audit_ok => error_ok
    /\ Fault(Failed(audit_ok))
    /\ IF audit_ok
       THEN create_audit_entry(event_type, payload)
       ELSE IF error_ok
       THEN create_audit_entry("error", ErrorPayload(path, "POST"))
       ELSE UNCHANGED <<audit_logs, audit_orig>>

\* create_audit_entry at the end of a review handler. When it raises, the
\* request ends in a 500 and general_exception_handler tries to append an
\* 'error' entry of its own.
\*   audit_ok: the handler's audit INSERT commits
\*   error_ok: the exception handler's audit INSERT commits
AuditOrError(i, event_type, payload, audit_ok, error_ok) ==
    /\ audit_ok => error_ok
    /\ Fault(Failed(audit_ok) + Failed(error_ok))
    /\ IF audit_ok
       THEN create_audit_entry(event_type, payload)
       ELSE IF error_ok
       THEN create_audit_entry("error", ErrorPayload(ReviewPath(calls[i]), "POST"))
       ELSE UNCHANGED <<audit_logs, audit_orig>>
    /\ calls' = [calls EXCEPT ![i].pc = "done",
                              ![i].result = IF audit_ok THEN "200" ELSE "500"]

\* review_action, its first SELECT: the review row; 404 when it is missing.
StartAct(user, rid, action) ==
    /\ Len(calls) < MaxCalls
    /\ calls' = Append(calls,
         IF rid \in Indices(review_queue)
         THEN NewCall(user, "act", action, rid, "row", LoadedRow(rid), NULL)
         ELSE NewCall(user, "act", action, rid, "done", NoSnapshot, "404"))
    /\ UNCHANGED <<review_queue, nfaults>>
    /\ UNCHANGED <<pipelineVars, auditVars, checkVars, adminVars,
                   busVars, pagingVars>>

\* review_action, its second SELECT: the crawled item of the row it loaded, as
\* committed by now. (The crawled item of a review row is there: nothing
\* deletes one.)
LoadItem(i) ==
    /\ i \in Indices(calls)
    /\ calls[i].pc = "row" /\ calls[i].op = "act"
    /\ calls' = [calls EXCEPT ![i].pc = "loaded",
                              ![i].seen.label = crawled_items[calls[i].seen.doc_id].label]
    /\ UNCHANGED <<review_queue, nfaults>>
    /\ UNCHANGED <<pipelineVars, auditVars, checkVars, adminVars,
                   busVars, pagingVars>>

\* The label review_action assigns to the crawled item (none on escalate).
ActLabel(action, loaded) ==
    IF action = "approve" THEN "scam"
    ELSE IF action = "reject" THEN "benign"
    ELSE loaded

\* The review row after review_action's UPDATE.
ActReviewRow(stored, c) ==
    [doc_id      |-> stored.doc_id,
     status      |-> Flush(stored.status, c.seen.status, c.action),
     assigned_to |-> Flush(stored.assigned_to, c.seen.assigned_to, c.user),
     priority    |-> Flush(stored.priority, c.seen.priority,
                           IF c.action = "escalate" THEN EscalatedPriority
                           ELSE c.seen.priority)]

ReviewActionPayload(c) ==
    << <<"review_id", ToString(c.rid)>>, <<"doc_id", ToString(c.seen.doc_id)>>,
       <<"action", c.action>>, <<"reviewer_id", c.user>>, <<"note", NULL>> >>

\* review_action, its assignments and db.commit(): the UPDATEs of the review
\* row and of the crawled item become visible together.
CommitAct(i) ==
    /\ i \in Indices(calls)
    /\ calls[i].pc = "loaded" /\ calls[i].op = "act"
    /\ LET c == calls[i] IN
       /\ review_queue' = [review_queue EXCEPT ![c.rid] = ActReviewRow(@, c)]
       /\ crawled_items' =
            [crawled_items EXCEPT ![c.seen.doc_id].label =
                Flush(@, c.seen.label, ActLabel(c.action, c.seen.label))]
    /\ calls' = [calls EXCEPT ![i].pc = "committed"]
    /\ UNCHANGED <<crawl_queue, ingest_queue, crawl_acks, ingest_acks, vectors,
                   milvus, npublished, enrich_worker, ingest_worker, nfaults>>
    /\ UNCHANGED <<auditVars, checkVars, adminVars, busVars, pagingVars>>

\* review_action after its commit: the audit entry, written in a session of
\* its own, then the response.
AuditAct(i, audit_ok, error_ok) ==
    /\ i \in Indices(calls)
    /\ calls[i].pc = "committed" /\ calls[i].op = "act"
    /\ AuditOrError(i, "review_action", ReviewActionPayload(calls[i]), audit_ok, error_ok)
    /\ UNCHANGED <<review_queue, HMAC_KEY, verify_log, ntamper, cleanup>>
    /\ UNCHANGED <<pipelineVars, checkVars, adminVars, busVars, pagingVars>>

\* assign_review up to its check: 404 when the row is missing, 400 when it is
\* assigned to somebody else.
StartAssign(user, rid) ==
    /\ Len(calls) < MaxCalls
    /\ calls' = Append(calls,
         IF rid \notin Indices(review_queue)
         THEN NewCall(user, "assign", "assign", rid, "done", NoSnapshot, "404")
         ELSE IF review_queue[rid].assigned_to \notin {NULL, user}
         THEN NewCall(user, "assign", "assign", rid, "done", LoadedRow(rid), "400")
         ELSE NewCall(user, "assign", "assign", rid, "loaded", LoadedRow(rid), NULL))
    /\ UNCHANGED <<review_queue, nfaults>>
    /\ UNCHANGED <<pipelineVars, auditVars, checkVars, adminVars,
                   busVars, pagingVars>>

\* The review row after assign_review's UPDATE.
AssignReviewRow(stored, c) ==
    [doc_id      |-> stored.doc_id,
     status      |-> Flush(stored.status, c.seen.status, "in_review"),
     assigned_to |-> Flush(stored.assigned_to, c.seen.assigned_to, c.user),
     priority    |-> stored.priority]

ReviewAssignedPayload(c) ==
    << <<"review_id", ToString(c.rid)>>, <<"assigned_to", c.user>> >>

\* assign_review, its assignments and db.commit().
CommitAssign(i) ==
    /\ i \in Indices(calls)
    /\ calls[i].pc = "loaded" /\ calls[i].op = "assign"
    /\ review_queue' = [review_queue EXCEPT
                          ![calls[i].rid] = AssignReviewRow(@, calls[i])]
    /\ calls' = [calls EXCEPT ![i].pc = "committed"]
    /\ UNCHANGED nfaults
    /\ UNCHANGED <<pipelineVars, auditVars, checkVars, adminVars,
                   busVars, pagingVars>>

\* assign_review after its commit: the audit entry, then the response.
AuditAssign(i, audit_ok, error_ok) ==
    /\ i \in Indices(calls)
    /\ calls[i].pc = "committed" /\ calls[i].op = "assign"
    /\ AuditOrError(i, "review_assigned", ReviewAssignedPayload(calls[i]),
                    audit_ok, error_ok)
    /\ UNCHANGED <<review_queue, HMAC_KEY, verify_log, ntamper, cleanup>>
    /\ UNCHANGED <<pipelineVars, checkVars, adminVars, busVars, pagingVars>>

-----------------------------------------------------------------------------
(* The review queue, page by page: get_review_queue in routes/review.py *)

\* review_queue.created_at is the server's now() at the INSERT; rows are only
\* ever appended, so a row's creation time is its position in the table.
CreatedAt(rid) == rid

\* datetime.isoformat() of a created_at, and datetime.fromisoformat of a cursor.
isoformat(t) == ToString(t)
fromisoformat(text) == CHOOSE t \in 0..MaxCrawl : ToString(t) = text

\* ORDER BY review_queue.priority DESC, review_queue.created_at ASC
OrderedBefore(a, b) ==
    \/ review_queue[a].priority > review_queue[b].priority
    \/ /\ review_queue[a].priority = review_queue[b].priority
       /\ CreatedAt(a) < CreatedAt(b)

RECURSIVE OrderBy(_)
OrderBy(rids) ==
    IF rids = {} THEN <<>>
    ELSE LET first == CHOOSE a \in rids : \A b \in rids \ {a} : OrderedBefore(a, b)
         IN  <<first>> \o OrderBy(rids \ {first})

\* query.limit(n).all()
Limit(rows, n) == [i \in 1..(IF n < Len(rows) THEN n ELSE Len(rows)) |-> rows[i]]

\* The filters of get_review_queue: a status or an assignee that is not given
\* (or empty) filters nothing.
MatchesFilter(rid, status, assigned_to) ==
    /\ review_queue[rid].doc_id \in Indices(crawled_items)
    /\ status # NULL => review_queue[rid].status = status
    /\ assigned_to # NULL => review_queue[rid].assigned_to = assigned_to

\* One ReviewItem of the response.
ReviewItem(rid) ==
    [id          |-> rid,
     doc_id      |-> review_queue[rid].doc_id,
     status      |-> review_queue[rid].status,
     priority    |-> review_queue[rid].priority,
     assigned_to |-> review_queue[rid].assigned_to,
     created_at  |-> isoformat(CreatedAt(rid))]

NoPage == [items |-> <<>>, cursor |-> NULL, has_more |-> FALSE, total_pending |-> 0]
NotPaged == [limit |-> 0, status |-> NULL, assigned_to |-> NULL, pages |-> <<>>,
             seen |-> <<>>]
NoQueueCall ==
    [pc |-> "idle", limit |-> 0, cursor |-> NULL, status |-> NULL,
     assigned_to |-> NULL, results |-> <<>>, items |-> <<>>, has_more |-> FALSE,
     next_cursor |-> NULL, seen |-> <<>>]

\* GET /review/queue up to the end of the loop that builds the items: the
\* page SELECT, has_more, the next cursor and the items from the rows the
\* SELECT loaded. seen is the table as this statement found it, kept to tell
\* whether it changed while the client was paging.
get_review_queue(limit, cursor, status, assigned_to) ==
    /\ queue_call.pc = "idle"
    /\ npages < MaxPages
    /\ npages' = npages + 1
    /\ LET matching == {rid \in Indices(review_queue) :
                          /\ MatchesFilter(rid, status, assigned_to)
                          /\ cursor # NULL => CreatedAt(rid) > fromisoformat(cursor)}
           fetched  == Limit(OrderBy(matching), limit + 1)
           has_more == Len(fetched) > limit
           results  == IF has_more THEN SubSeq(fetched, 1, Len(fetched) - 1) ELSE fetched
           next_cursor == IF has_more /\ results # <<>>
                          THEN isoformat(CreatedAt(results[Len(results)]))
                          ELSE NULL
       IN
       queue_call' =
            [pc          |-> "selected",
             limit       |-> limit,
             cursor      |-> cursor,
             status      |-> status,
             assigned_to |-> assigned_to,
             results     |-> results,
             items       |-> [i \in Indices(results) |-> ReviewItem(results[i])],
             has_more    |-> has_more,
             next_cursor |-> next_cursor,
             seen        |-> review_queue]
    /\ UNCHANGED <<last_page, paged, nfaults>>
    /\ UNCHANGED <<pipelineVars, reviewVars, auditVars, checkVars, adminVars, busVars>>

\* GET /review/queue from its second statement on: the count of the pending
\* entries, a statement of its own that sees what was committed since the
\* page SELECT, and the response. A request without a cursor starts the
\* client's paging over; one with a cursor adds a page to it.
count_total_pending ==
    /\ queue_call.pc = "selected"
    /\ last_page' =
         [items         |-> queue_call.items,
          cursor        |-> queue_call.next_cursor,
          has_more      |-> queue_call.has_more,
          total_pending |-> Cardinality({rid \in Indices(review_queue) :
                                           review_queue[rid].status = "pending"})]
    /\ paged' = [limit |-> queue_call.limit, status |-> queue_call.status,
                 assigned_to |-> queue_call.assigned_to,
                 pages |-> IF queue_call.cursor = NULL THEN <<queue_call.results>>
                           ELSE Append(paged.pages, queue_call.results),
                 seen  |-> IF queue_call.cursor = NULL THEN queue_call.seen
                           ELSE paged.seen]
    /\ queue_call' = NoQueueCall
    /\ UNCHANGED <<npages, nfaults>>
    /\ UNCHANGED <<pipelineVars, reviewVars, auditVars, checkVars, adminVars, busVars>>

-----------------------------------------------------------------------------
(* LLM services: llm/llm_service.py, llm/vertex_ai_service.py,             *)
(* llm/unified_llm_service.py                                              *)

Verdicts == {"TRUE", "FALSE", "MISLEADING", "UNVERIFIED", "PARTIALLY TRUE"}

\* What the model can put in the fields of its JSON answer.
\*   verdict:    absent, JSON null, a JSON list, a verdict of the prompt, other text
\*   trust:      absent, a number, text that is no number
\*   confidence: absent, a number
\*   evidence:   absent, [], a list of strings (what the prompt asks for)
VerdictFields == Verdicts \cup {"<missing>", "<null>", "<list>", "BANANA"}
TrustFields == {"<missing>", "85", "high"}
ConfidenceFields == {"<missing>", "90"}
EvidenceFields == {"<missing>", "<empty>", "<strings>"}

\* A parsed JSON value: an object with these fields, or something else that
\* is truthy ("list") or falsy ("falsy": [], 0, null, {}).
\* The fields are read one by one, each on its own: the objects differ from
\* one full answer in one field, and one object holds other keys only.
FullAnswer ==
    [type |-> "dict", verdict |-> "TRUE", trust |-> "85", confidence |-> "90",
     evidence |-> "<empty>"]
OtherKeysObject ==
    [type |-> "dict", verdict |-> "<missing>", trust |-> "<missing>",
     confidence |-> "<missing>", evidence |-> "<missing>"]
JsonObjects ==
    {[FullAnswer EXCEPT !.verdict = x] : x \in VerdictFields}
    \cup {[FullAnswer EXCEPT !.trust = x] : x \in TrustFields}
    \cup {[FullAnswer EXCEPT !.confidence = x] : x \in ConfidenceFields}
    \cup {[FullAnswer EXCEPT !.evidence = x] : x \in EvidenceFields}
    \cup {OtherKeysObject}
JsonOther(type) ==
    [type |-> type, verdict |-> "<missing>", trust |-> "<missing>",
     confidence |-> "<missing>", evidence |-> "<missing>"]
JsonValues == JsonObjects \cup {JsonOther("list"), JsonOther("falsy")}

\* The text a provider's generate_text returns: "" (HTTP error, exception, no
\* model), text holding no JSON, a JSON document, a JSON object inside prose.
LLMTexts ==
    {[kind |-> "none", body |-> JsonOther("falsy")],
     [kind |-> "garbage", body |-> JsonOther("falsy")]}
    \cup [kind : {"json"}, body : JsonValues]
    \cup [kind : {"wrapped"}, body : {FullAnswer, OtherKeysObject}]

\* generate_json: {} for "" and for text that does not parse even between its
\* first { and last }.
generate_json(text) ==
    IF text.kind \in {"none", "garbage"} THEN JsonOther("falsy") ELSE text.body

\* dict.setdefault: the default only where the key is absent.
SetDefault(field, default) == IF field = "<missing>" THEN default ELSE field

\* A fallback that takes the claim to be false.
FallbackResponse_false_verdict ==
    [type |-> "dict", verdict |-> "FALSE", trust |-> "0",
     confidence |-> "0", evidence |-> "<empty>"]

\* _get_fallback_response, and the dict the providers build for an empty answer
FallbackResponse ==
    [type |-> "dict", verdict |-> "UNVERIFIED", trust |-> "0",
     confidence |-> "0", evidence |-> "<empty>"]

\* A provider's generate_fact_check_response after generate_json; "raise" when
\* the parsed value is no dict and setdefault is not there.
ProviderFactCheck(text) ==
    LET response == generate_json(text) IN
    IF response.type = "falsy" THEN FallbackResponse
    ELSE IF response.type = "list" THEN JsonOther("raise")
    ELSE [type |-> "dict",
          verdict |-> SetDefault(response.verdict, "UNVERIFIED"),
          trust |-> SetDefault(response.trust, "0"),
          confidence |-> SetDefault(response.confidence, "0"),
          evidence |-> SetDefault(response.evidence, "<empty>")]

NoService == [made |-> FALSE, provider |-> "vertex_ai", vertex |-> FALSE, ollama |-> FALSE]

\* get_vertex_ai_service: the singleton after the call, given the singleton
\* before it (v) and how a fresh construction would go ("raise", "nomodel",
\* "loaded"). After a construction that raised the singleton is still None,
\* and the next call constructs again.
GetVertex(v, construction) ==
    IF v # "none" THEN v
    ELSE IF construction = "raise" THEN "none" ELSE construction

\* UnifiedLLMService._initialize_services for a service whose provider field
\* is already set: the service fields after it. OllamaService.is_available is
\* an HTTP request to the server each time it is called.
\*   v:            the Vertex AI singleton before the call
\*   construction: how constructing VertexAIService goes, if it is constructed
\*   up:           what the Ollama server answers if it is probed
InitializeServices(svc, v, construction, up) ==
    LET got == GetVertex(v, construction) IN
    IF svc.provider = "vertex_ai"
    THEN IF got = "none"     \* get_vertex_ai_service raised: except branch
         THEN [svc EXCEPT !.provider = "ollama", !.ollama = TRUE]
         ELSE IF got = "loaded"
         THEN [svc EXCEPT !.vertex = TRUE]
         ELSE [svc EXCEPT !.vertex = TRUE, !.provider = "ollama", !.ollama = TRUE]
    ELSE IF up
         THEN [svc EXCEPT !.ollama = TRUE]
         ELSE IF got = "none" \* raised with provider already vertex_ai: back to Ollama
         THEN [svc EXCEPT !.ollama = TRUE, !.provider = "ollama"]
         ELSE [svc EXCEPT !.ollama = TRUE, !.provider = "vertex_ai", !.vertex = TRUE]

\* Whether _initialize_services called get_vertex_ai_service.
TouchesVertex(svc, up) == svc.provider = "vertex_ai" \/ ~up

\* The Vertex AI singleton after _initialize_services, and whether it
\* constructed VertexAIService (the singleton was None when it asked for it).
InitializeVertex(svc, v, construction, up) ==
    IF TouchesVertex(svc, up) THEN GetVertex(v, construction) ELSE v
InitConstructs(svc, v, up) == TouchesVertex(svc, up) /\ v = "none"

\* Whether _initialize_services probed the Ollama server.
InitProbes(svc) == svc.provider # "vertex_ai"

\* get_unified_llm_service: the singleton, constructed at the first call with
\* the default LLM_PROVIDER, vertex_ai, for which the Ollama server is not
\* probed.
GetUnified(construction) ==
    IF llm_service.made THEN llm_service
    ELSE InitializeServices([NoService EXCEPT !.made = TRUE], vertex_global,
                            construction, ollama_up)

\* The Vertex AI singleton after get_unified_llm_service.
GetUnifiedVertex(construction) ==
    IF llm_service.made THEN vertex_global
    ELSE InitializeVertex(NoService, vertex_global, construction, ollama_up)

VertexAvailable(svc, v) == svc.vertex /\ v = "loaded"
OllamaAvailable(svc, up) == svc.ollama /\ up

\* The provider UnifiedLLMService.generate_fact_check_response calls: the
\* selected one when available, else Vertex AI, else Ollama, else "none".
\* It probes the Ollama server a second time only after a first probe that
\* failed, and then routes like a call that finds the server up at its first
\* probe: both probes are one reading of the server here.
RouteTo(svc, v) ==
    IF svc.provider = "vertex_ai" /\ VertexAvailable(svc, v) THEN "vertex_ai"
    ELSE IF svc.provider = "ollama" /\ OllamaAvailable(svc, ollama_up) THEN "ollama"
    ELSE IF VertexAvailable(svc, v) THEN "vertex_ai"
    ELSE IF OllamaAvailable(svc, ollama_up) THEN "ollama"
    ELSE "none"

\* UnifiedLLMService.generate_fact_check_response
UnifiedFactCheck(svc, v, text) ==
    IF RouteTo(svc, v) = "none" THEN FallbackResponse
    ELSE IF ProviderFactCheck(text).type = "raise" THEN FallbackResponse
    ELSE ProviderFactCheck(text)

-----------------------------------------------------------------------------
(* Check endpoint: api/app/routes/check.py *)

TopK == 6                    \* search_similar_claims(..., top_k=6)
DummyEvidence == 3           \* range(min(top_k, 3))
Min(a, b) == IF a < b THEN a ELSE b

\* search_similar_claims: the ids of the evidence it returns, in order.
search_similar_claims(top_k) == [i \in 1..Min(top_k, DummyEvidence) |-> i - 1]

\* call_llm_explainer: the service's answer with its own defaults filled in.
\* (get_unified_llm_service and the service catch what they raise themselves.)
call_llm_explainer(svc, v, text) ==
    LET result == UnifiedFactCheck(svc, v, text) IN
    [result EXCEPT !.verdict = SetDefault(@, "UNVERIFIED"),
                   !.trust = SetDefault(@, "0"),
                   !.confidence = SetDefault(@, "0"),
                   !.evidence = SetDefault(@, "<dicts>")]

\* CheckResponse(...) validates: verdict a str, trust_score and confidence
\* int, evidence_list a list of dict.
ResponseValidates(result) ==
    /\ result.verdict \notin {"<null>", "<list>"}
    /\ result.trust # "high"
    /\ result.evidence # "<strings>"

IntOf(field) == IF field = "85" THEN 85 ELSE IF field = "90" THEN 90 ELSE 0

\* CheckRequest: claim_text a string of 1 to 5000 characters, language a
\* string the pattern ^(auto|hi|ta|kn|en)$ matches.
MinClaimLength == 1
MaxClaimLength == 5000
SupportedLanguages == {"auto", "hi", "ta", "kn", "en"}

\* re.match of ^(auto|hi|ta|kn|en)$ on the language.
LanguagePatternMatches(language) ==
    \E code \in SupportedLanguages :
        language = code \/ language = code \o Newline

CheckRequestValidates(body) ==
    /\ body.claim.present
    /\ body.claim.len >= MinClaimLength
    /\ body.claim.len <= MaxClaimLength
    /\ LanguagePatternMatches(body.language)

\* detect_language of the check route: by script, English when unsure.
detect_claim_language(text) == text.lang

NoBody == [language |-> NULL, claim |-> [present |-> FALSE, len |-> 0, lang |-> NULL]]

NoCheck ==
    [status |-> NULL, request |-> NoBody,
     verdict |-> NULL, trust_score |-> 0, confidence |-> 0, retrieved_ids |-> <<>>,
     mini_lesson |-> FALSE, language_detected |-> NULL, routed |-> NULL,
     shown |-> <<>>, path |-> NULL, llm_kind |-> NULL]

\* What a request that fails validation gets: 422 before the handler runs.
RejectedCheck(body) == [NoCheck EXCEPT !.status = "422", !.request = body]

\* The CheckResponse of check_claim: the assembled one, or the one of the
\* except branch when assembling raised.
CheckResponseOf(result, language, detected, routed) ==
    IF ResponseValidates(result)
    THEN [verdict |-> result.verdict,
          trust_score |-> IntOf(result.trust),
          confidence |-> IntOf(result.confidence),
          retrieved_ids |-> search_similar_claims(TopK),
          mini_lesson |-> result.verdict \in {"FALSE", "MISLEADING"},
          language_detected |-> detected,
          routed |-> routed]
    ELSE [verdict |-> "UNVERIFIED", trust_score |-> 0, confidence |-> 0,
          retrieved_ids |-> <<>>, mini_lesson |-> FALSE,
          language_detected |-> IF language = "auto" THEN "en" ELSE language,
          routed |-> routed]

\* Which return statement produced the result of a check, innermost first:
\*   "unavailable" no provider answers is_available (_get_fallback_response)
\*   "empty"       the provider got no JSON out of its model (its fallback dict)
\*   "raised"      the provider raised and the unified service caught it
\*   "error"       the except branch of check_claim
\*   "answer"      the model's JSON, defaults filled in
CheckPath(svc, v, text, result) ==
    IF RouteTo(svc, v) = "none" THEN "unavailable"
    ELSE IF generate_json(text).type = "falsy" THEN "empty"
    ELSE IF ProviderFactCheck(text).type = "raise" THEN "raised"
    ELSE IF ~ResponseValidates(result) THEN "error"
    ELSE "answer"

\* evidence_for_llm of call_llm_explainer, by the ids of its items: one entry
\* per item of the evidence, in order; the providers number them into the
\* prompt in that order.
evidence_for_llm(evidence) == [i \in 1..Len(evidence) |-> evidence[i]]

\* The response with what the request went through, for the record.
CheckRecord(body, response, shown, path, kind) ==
    [status |-> "200", request |-> body,
     verdict |-> response.verdict, trust_score |-> response.trust_score,
     confidence |-> response.confidence, retrieved_ids |-> response.retrieved_ids,
     mini_lesson |-> response.mini_lesson,
     language_detected |-> response.language_detected, routed |-> response.routed,
     shown |-> shown, path |-> path, llm_kind |-> kind]

\* The audit payloads of check_claim; request_id is the number of the request.
CheckPayload(request_id, response) ==
    << <<"request_id", ToString(request_id)>>,
       <<"language", response.language_detected>>,
       <<"verdict", response.verdict>>,
       <<"trust_score", ToString(response.trust_score)>> >>

CheckErrorPayload(request_id) ==
    << <<"request_id", ToString(request_id)>>, <<"error", "validation">> >>

\* POST /check with a valid body, up to its response. The audit entry is
\* handed to BackgroundTasks and written after the response was sent.
\*   language:     the language field of the request
\*   claim:        the claim text
\*   construction: how constructing VertexAIService goes, if it is constructed
\*   text:         what the provider's model answers, if a provider is called
check_claim(language, claim, construction, text) ==
    /\ nchecks < MaxChecks
    /\ nchecks' = nchecks + 1
    /\ LET detected == IF language = "auto" THEN detect_claim_language(claim) ELSE language
           svc      == GetUnified(construction)
           v        == GetUnifiedVertex(construction)
           routed   == RouteTo(svc, v)
           result   == call_llm_explainer(svc, v, text)
           response == CheckResponseOf(result, language, detected, routed)
       IN
       /\ llm_service.made => construction = "loaded"
       /\ routed = "none" => text.kind = "none"
       /\ llm_service' = svc
       /\ vertex_global' = v
       /\ last_check' = CheckRecord([language |-> language, claim |-> claim], response,
                                     evidence_for_llm(search_similar_claims(TopK)),
                                     CheckPath(svc, v, text, result), text.kind)
       /\ primary_failed' = IF primary_failed = NULL /\ routed = svc.provider
                                 /\ text.kind = "none"
                              THEN routed ELSE primary_failed
       /\ check_tasks' = Append(check_tasks,
            IF ResponseValidates(result)
            THEN [event_type |-> "check",
                  payload |-> CheckPayload(nchecks + 1, response), pc |-> "pending"]
            ELSE [event_type |-> "check_error",
                  payload |-> CheckErrorPayload(nchecks + 1), pc |-> "pending"])
    /\ UNCHANGED <<ollama_up, nswitches, last_switch, llm_status, nfaults>>
    /\ UNCHANGED <<pipelineVars, reviewVars, auditVars, adminVars, busVars, pagingVars>>

\* POST /check: the body is validated against CheckRequest first; a body that
\* fails gets 422 and check_claim does not run.
post_check(body, construction, text) ==
    IF CheckRequestValidates(body)
    THEN check_claim(body.language, body.claim, construction, text)
    ELSE /\ nchecks < MaxChecks
         /\ nchecks' = nchecks + 1
         /\ construction = "loaded" /\ text.kind = "none"
         /\ last_check' = RejectedCheck(body)
         /\ UNCHANGED <<llm_service, vertex_global, ollama_up, primary_failed,
                        nswitches, last_switch, check_tasks, llm_status, nfaults>>
         /\ UNCHANGED <<pipelineVars, reviewVars, auditVars,
                        adminVars, busVars, pagingVars>>

\* The background task of a check request runs: create_audit_entry with the
\* event type and the payload check_claim handed over. The tasks of two
\* requests run in either order.
CheckAuditTask(t, audit_ok, error_ok) ==
    /\ t \in Indices(check_tasks)
    /\ check_tasks[t].pc = "pending"
    /\ BackgroundAudit(check_tasks[t].event_type, check_tasks[t].payload, "check",
                       audit_ok, error_ok)
    /\ check_tasks' = [check_tasks EXCEPT ![t].pc = IF audit_ok THEN "done" ELSE "failed"]
    /\ UNCHANGED <<llm_service, vertex_global, ollama_up, last_check, primary_failed,
                   nchecks, nswitches, last_switch, llm_status>>
    /\ UNCHANGED <<HMAC_KEY, verify_log, ntamper, cleanup>>
    /\ UNCHANGED <<pipelineVars, reviewVars, adminVars, busVars, pagingVars>>

\* UnifiedLLMService.is_available: the selected provider's handle answers.
\*   up: what the Ollama server answers if it is probed
UnifiedAvailable(svc, v, up) ==
    \/ svc.provider = "vertex_ai" /\ VertexAvailable(svc, v)
    \/ svc.provider = "ollama" /\ OllamaAvailable(svc, up)

\* Whether UnifiedLLMService.is_available probed the Ollama server.
AvailableProbes(svc) == svc.provider = "ollama" /\ svc.ollama

MaxProbes == 3       \* Ollama probes of one switch_provider call

\* UnifiedLLMService.switch_provider: the service and the Vertex AI singleton
\* after it, what it returns, which of its three Ollama probes it made and
\* which of its two _initialize_services constructed VertexAIService.
\*   v:             the Vertex AI singleton before the call
\*   constructions: how constructing VertexAIService goes in the first
\*                  _initialize_services (1) and in the second one, after a
\*                  failure (2)
\*   up: what the Ollama server answers to the probe of _initialize_services
\*       (1), to the probe of is_available (2) and to the probe of the second
\*       _initialize_services (3)
switch_provider(svc, v, new_provider, constructions, up) ==
    LET asked    == [svc EXCEPT !.provider = new_provider]
        tried    == InitializeServices(asked, v, constructions[1], up[1])
        v_tried  == InitializeVertex(asked, v, constructions[1], up[1])
        success  == UnifiedAvailable(tried, v_tried, up[2])
        reverted == [tried EXCEPT !.provider = svc.provider]
        back     == InitializeServices(reverted, v_tried, constructions[2], up[3])
        v_back   == InitializeVertex(reverted, v_tried, constructions[2], up[3])
    IN  [service     |-> IF success THEN tried ELSE back,
         success     |-> success,
         vertex      |-> IF success THEN v_tried ELSE v_back,
         probed      |-> <<InitProbes(asked), AvailableProbes(tried),
                           ~success /\ InitProbes(svc)>>,
         constructed |-> <<InitConstructs(asked, v, up[1]),
                           ~success /\ InitConstructs(reverted, v_tried, up[3])>>]

\* UnifiedLLMService.get_provider_info: is_available() for the selected
\* provider, then each handle's own is_available().
\*   up1, up2: what the Ollama server answers to the probe of is_available()
\*             and to the probe for ollama_available
get_provider_info(svc, v, up1, up2) ==
    [provider            |-> svc.provider,
     available           |-> UnifiedAvailable(svc, v, up1),
     vertex_ai_available |-> VertexAvailable(svc, v),
     ollama_available    |-> OllamaAvailable(svc, up2)]

NoStatus == [provider |-> NULL, available |-> FALSE, vertex_ai_available |-> FALSE,
             ollama_available |-> FALSE]

\* The probes of one call: up[i] is the answer to probe i, which the call
\* makes if probed[i]. The first probe made finds the server as it is; the
\* server can go down or come back between two probes, and the call leaves it
\* as its last probe found it. (A probe that is not made has the answer the
\* server would give now.)
ProbesStartNow(up, probed) ==
    \A i \in Indices(up) :
        (~probed[i] \/ \A j \in 1..(i - 1) : ~probed[j]) => up[i] = ollama_up
AfterProbes(up, probed) ==
    LET made == {i \in Indices(up) : probed[i]} IN
    IF made = {} THEN ollama_up
    ELSE up[CHOOSE i \in made : \A j \in made : j <= i]

\* GET /admin/llm/status: get_llm_provider_info on the singleton, which is
\* constructed here (and the Vertex AI service with it) if no request made it
\* before.
\*   construction: how constructing VertexAIService goes, if it is constructed
\*   up2:          what the Ollama server answers to the second probe
get_llm_status(construction, up2) ==
    /\ llm_service.made => construction = "loaded"
    /\ LET svc    == GetUnified(construction)
           v      == GetUnifiedVertex(construction)
           up     == <<ollama_up, up2>>
           probed == <<AvailableProbes(svc), svc.ollama>>
       IN
       /\ ProbesStartNow(up, probed)
       /\ llm_service' = svc
       /\ vertex_global' = v
       /\ llm_status' = get_provider_info(svc, v, ollama_up, up2)
       /\ ollama_up' = AfterProbes(up, probed)
    /\ UNCHANGED <<last_check, primary_failed, nchecks, nswitches,
                   last_switch, check_tasks, nfaults>>
    /\ UNCHANGED <<pipelineVars, reviewVars, auditVars, adminVars, busVars, pagingVars>>

\* The provider of POST /admin/llm/switch: a string the pattern
\* ^(vertex_ai|ollama)$ matches, which is one of the two names or one of them
\* before a newline.
ProviderNames == {"vertex_ai", "ollama"}
Providers == ProviderNames \cup {name \o Newline : name \in ProviderNames}
NoSwitch == [requested |-> NULL, before |-> NULL, success |-> FALSE]
Admin == "admin"

LLMSwitchPayload(provider) ==
    << <<"new_provider", provider>>, <<"switched_by", Admin>> >>

\* POST /admin/llm/switch: switch_llm_provider on the singleton (constructed
\* here if no request made it before), then the audit entry when it reports
\* success; when it reports failure, the 400 is raised inside the try and the
\* endpoint answers 500, with no audit entry.
\*   constructions: how constructing VertexAIService goes in
\*                  get_unified_llm_service (1) and in the two
\*                  _initialize_services of switch_provider (2, 3); the one
\*                  that is not constructed is given as "loaded"
\*   up:       what the Ollama server answers to the probes of switch_provider
\*   audit_ok: the audit INSERT commits (else the endpoint answers 500 with
\*             the switch done)
switch_llm_provider_endpoint(provider, constructions, up, audit_ok) ==
    /\ nswitches < MaxSwitches
    /\ nswitches' = nswitches + 1
    /\ (llm_service.made \/ vertex_global # "none") => constructions[1] = "loaded"
    /\ up[1] = ollama_up
    /\ LET svc == GetUnified(constructions[1])
           v   == GetUnifiedVertex(constructions[1])
           out == switch_provider(svc, v, provider, Tail(constructions), up)
       IN
       /\ \A i \in Indices(out.constructed) :
             ~out.constructed[i] => constructions[i + 1] = "loaded"
       /\ ProbesStartNow(up, out.probed)
       /\ llm_service' = out.service
       /\ vertex_global' = out.vertex
       /\ ollama_up' = AfterProbes(up, out.probed)
       /\ primary_failed' = NULL
       /\ last_switch' = [requested |-> provider, before |-> svc.provider,
                         success |-> out.success]
       /\ out.success \/ audit_ok
       /\ Fault(Failed(audit_ok))
       /\ IF out.success /\ audit_ok
          THEN create_audit_entry("llm_provider_switch", LLMSwitchPayload(provider))
          ELSE UNCHANGED <<audit_logs, audit_orig>>
    /\ UNCHANGED <<last_check, nchecks, check_tasks, llm_status, HMAC_KEY,
                   verify_log, ntamper, cleanup>>
    /\ UNCHANGED <<pipelineVars, reviewVars, adminVars, busVars, pagingVars>>

\* The Ollama server goes down or comes back.
OllamaFlips ==
    /\ ollama_up' = ~ollama_up
    /\ UNCHANGED <<llm_service, vertex_global, last_check, primary_failed,
                   nchecks, nswitches, last_switch, check_tasks, llm_status, nfaults>>
    /\ UNCHANGED <<pipelineVars, reviewVars, auditVars, adminVars,
                   busVars, pagingVars>>

-----------------------------------------------------------------------------
(* Model configuration: api/app/routes/admin.py, update_model_config *)

ClassifierVersions == {"v1.0.0", "v1.1.0"}
DefaultClassifierVersion == "v1.0.0"

\* ModelUpdate: the fields left out are set like classifier_version.
ModelUpdates == [classifier_version : ClassifierVersions \cup {NULL},
                 is_active : BOOLEAN]

\* The ModelVersion row update_model_config builds.
ModelVersionRow(model_update) ==
    [classifier_version |-> IF model_update.classifier_version = NULL
                            THEN DefaultClassifierVersion
                            ELSE model_update.classifier_version,
     is_active |-> model_update.is_active]

\* The rows matched by filter(ModelVersion.is_active == True).
ActiveModelIds(rows) == {i \in Indices(rows) : rows[i].is_active}

\* update_model_config up to its UPDATE statement, issued only when the new
\* version is to be active. Under READ COMMITTED the statement sees the rows
\* committed when it starts; it does not see what a concurrent request has
\* not committed yet.
StartModelUpdate(model_update) ==
    /\ nupdates < MaxUpdates
    /\ nupdates' = nupdates + 1
    /\ model_calls' = Append(model_calls,
         [update   |-> model_update,
          seen     |-> IF model_update.is_active
                       THEN ActiveModelIds(model_versions) ELSE {},
          model_id |-> 0,
          pc       |-> "updated"])
    /\ UNCHANGED <<model_versions, nfaults>>
    /\ UNCHANGED <<pipelineVars, reviewVars, auditVars, checkVars,
                   busVars, pagingVars>>

\* The rows of the table after the request's commit: the rows its UPDATE
\* matched are inactive, the new row is appended.
CommitModelUpdate(rows, c) ==
    Append([i \in Indices(rows) |->
               IF i \in c.seen THEN [rows[i] EXCEPT !.is_active = FALSE]
               ELSE rows[i]],
           ModelVersionRow(c.update))

ModelUpdatedPayload(model_id, model_update) ==
    << <<"model_id", ToString(model_id)>>, <<"updated_by", Admin>>,
       <<"changes", ToString(model_update)>> >>

\* update_model_config from db.add to its response: INSERT, commit, refresh;
\* the audit entry is handed to BackgroundTasks with the id of the new row. A
\* request whose UPDATE matched a row that an earlier request in flight has
\* updated waits for that request's commit (row lock), and then finds the row
\* inactive.
FinishModelUpdate(i) ==
    /\ i \in Indices(model_calls)
    /\ model_calls[i].pc = "updated"
    /\ \A j \in 1..(i - 1) :
          model_calls[j].pc = "updated" =>
              model_calls[j].seen \cap model_calls[i].seen = {}
    /\ model_versions' = CommitModelUpdate(model_versions, model_calls[i])
    /\ model_calls' = [model_calls EXCEPT ![i].pc = "committed",
                                          ![i].model_id = Len(model_versions) + 1]
    /\ UNCHANGED <<nupdates, nfaults>>
    /\ UNCHANGED <<pipelineVars, reviewVars, auditVars, checkVars, busVars, pagingVars>>

\* The background task of a model-configuration update runs, after the
\* response was sent: create_audit_entry('model_updated', ...). The tasks of
\* two updates run in either order.
ModelUpdateAuditTask(i, audit_ok, error_ok) ==
    /\ i \in Indices(model_calls)
    /\ model_calls[i].pc = "committed"
    /\ BackgroundAudit("model_updated",
                       ModelUpdatedPayload(model_calls[i].model_id, model_calls[i].update),
                       "admin/models/update", audit_ok, error_ok)
    /\ model_calls' = [model_calls EXCEPT ![i].pc = "done"]
    /\ UNCHANGED <<model_versions, nupdates, HMAC_KEY, verify_log, ntamper, cleanup>>
    /\ UNCHANGED <<pipelineVars, reviewVars, checkVars, busVars, pagingVars>>

-----------------------------------------------------------------------------
(* Event bus: api/app/websocket.py, ConnectionManager *)

Roles == {"admin", "reviewer", "user"}
\* The user_id and role of the clients that connect: an anonymous client
\* with a role that has no table, and a user who is reviewer on one
\* connection and admin on another.
Clients == {[user_id |-> NULL, role |-> "guest"],
            [user_id |-> "alice", role |-> "reviewer"],
            [user_id |-> "alice", role |-> "admin"]}
Sockets == 1..MaxSockets

\* An event type is the pair of its family and its name, "family:name".
BusEventTypes == {<<"ingest", "completed">>, <<"review", "queued">>,
                  <<"admin", "alert">>}
NoType == <<NULL, NULL>>
\* What a connection asked for, kept here only to state what the code does
\* with it: the event types of its last subscribe message, and how many events
\* had been sent when it arrived.
NoSubscription == [made |-> FALSE, event_types |-> {}, since |-> 0]

\* What a client receives: an event, or the reply to a message it sent.
EventMessage(event, event_type) ==
    [type |-> "event", event |-> event, event_type |-> event_type,
     event_types |-> {}]
ReplyMessage(type, event_types) ==
    [type |-> type, event |-> 0, event_type |-> NoType,
     event_types |-> event_types]

\* The elements of a list.
Elements(s) == {s[i] : i \in Indices(s)}

\* list.remove: the list without its first occurrence of x.
Remove(s, x) ==
    LET first == CHOOSE i \in Indices(s) :
                    s[i] = x /\ \A j \in 1..(i - 1) : s[j] # x
    IN [k \in 1..(Len(s) - 1) |-> IF k < first THEN s[k] ELSE s[k + 1]]

\* ConnectionManager.connect, called by handle_connection: accept the socket,
\* then enter it into the tables. user_id NULL is no (or an empty) user_id.
connect(user_id, role) ==
    /\ Len(handlers) < MaxSockets
    /\ LET websocket == Len(handlers) + 1 IN
       /\ handlers' = Append(handlers, [user_id |-> user_id, role |-> role,
                                        client_state |-> "CONNECTED"])
       /\ active_connections' = Append(active_connections, websocket)
       /\ user_connections' =
            IF user_id # NULL
            THEN [u \in DOMAIN user_connections \cup {user_id} |->
                     IF u = user_id
                     THEN (IF u \in DOMAIN user_connections
                           THEN user_connections[u] ELSE {}) \cup {websocket}
                     ELSE user_connections[u]]
            ELSE user_connections
       /\ role_connections' =
            IF role \in DOMAIN role_connections
            THEN [role_connections EXCEPT ![role] = @ \cup {websocket}]
            ELSE role_connections
    /\ UNCHANGED <<received, subscribed, nmessages, sends, nevents, nfaults>>
    /\ UNCHANGED <<pipelineVars, reviewVars, auditVars, checkVars,
                   adminVars, pagingVars>>

\* WebSocket.client_state. It becomes DISCONNECTED when the socket receives
\* the client's disconnect message, for which receive_text raises
\* WebSocketDisconnect; it stays CONNECTED when receive_text raises something
\* else (a binary frame has no text).
ClientStates == {"CONNECTED", "DISCONNECTED"}

\* ConnectionManager.disconnect, called by handle_connection with the user_id
\* and role of the connection when receive_text raises.
\*   client_state: the state receive_text leaves the socket in
disconnect(websocket, client_state) ==
    /\ websocket \in Elements(active_connections)
    /\ LET user_id == handlers[websocket].user_id
           role == handlers[websocket].role
           discarded == IF user_id # NULL /\ user_id \in DOMAIN user_connections
                        THEN user_connections[user_id] \ {websocket} ELSE {}
       IN
       /\ active_connections' = Remove(active_connections, websocket)
       /\ user_connections' =
            IF user_id # NULL /\ user_id \in DOMAIN user_connections
            THEN IF discarded = {}
                 THEN [u \in DOMAIN user_connections \ {user_id} |->
                          user_connections[u]]
                 ELSE [user_connections EXCEPT ![user_id] = discarded]
            ELSE user_connections
       /\ role_connections' =
            IF role \in DOMAIN role_connections
            THEN [role_connections EXCEPT ![role] = @ \ {websocket}]
            ELSE role_connections
    /\ handlers' = [handlers EXCEPT ![websocket].client_state = client_state]
    /\ UNCHANGED <<received, subscribed, nmessages, sends, nevents, nfaults>>
    /\ UNCHANGED <<pipelineVars, reviewVars, auditVars, checkVars,
                   adminVars, pagingVars>>

\* The connections send_event sends to: send_to_user, send_to_role or
\* broadcast, each over a copy of its table.
EventTargets(target_user, target_role) ==
    IF target_user # NULL
    THEN IF target_user \in DOMAIN user_connections
         THEN user_connections[target_user] ELSE {}
    ELSE IF target_role # NULL
    THEN IF target_role \in DOMAIN role_connections
         THEN role_connections[target_role] ELSE {}
    ELSE Elements(active_connections)

\* The orders in which a copy of a table is iterated: a list in its own
\* order, a set in any order.
Enumerations(set) ==
    {order \in [1..Cardinality(set) -> set] :
        \A i, j \in 1..Cardinality(set) : i # j => order[i] # order[j]}
IterationOrders(target_user, target_role) ==
    IF target_user = NULL /\ target_role = NULL
    THEN {active_connections}
    ELSE Enumerations(EventTargets(target_user, target_role))

\* ConnectionManager.send_event up to the first send: the message is built and
\* the table of the target copied. The sends follow one by one, and other
\* coroutines run between them.
\*   order: the order in which the copy is iterated
send_event(event_type, target_user, target_role, order) ==
    /\ nevents + nmessages < MaxEvents
    /\ nevents' = nevents + 1
    /\ order \in IterationOrders(target_user, target_role)
    /\ sends' = Append(sends,
         [type    |-> event_type,
          targets |-> EventTargets(target_user, target_role),
          pending |-> order,
          failed  |-> {}])
    /\ UNCHANGED <<active_connections, user_connections, role_connections,
                   handlers, received, subscribed, nmessages, nfaults>>
    /\ UNCHANGED <<pipelineVars, reviewVars, auditVars, checkVars,
                   adminVars, pagingVars>>

\* send_personal_message for the next connection of a send_event in flight:
\* nothing is sent to a socket whose client_state is not CONNECTED any more;
\* send_text is called on a socket that has left the tables since the copy
\* was taken with its client_state still CONNECTED. An exception of send_text
\* is caught and logged.
\*   send_ok: send_text goes through
send_personal_message(event, send_ok) ==
    /\ event \in Indices(sends)
    /\ sends[event].pending # <<>>
    /\ LET websocket == Head(sends[event].pending)
           connected == handlers[websocket].client_state = "CONNECTED"
       IN
       /\ connected \/ send_ok
       /\ received' =
            IF connected /\ send_ok
            THEN [received EXCEPT ![websocket] =
                     Append(@, EventMessage(event, sends[event].type))]
            ELSE received
       /\ sends' = [sends EXCEPT
                      ![event].pending = Tail(@),
                      ![event].failed = IF send_ok THEN @ ELSE @ \cup {websocket}]
    /\ UNCHANGED <<active_connections, user_connections, role_connections,
                   handlers, subscribed, nmessages, nevents, nfaults>>
    /\ UNCHANGED <<pipelineVars, reviewVars, auditVars, checkVars,
                   adminVars, pagingVars>>

\* The target_role of WebSocketService.broadcast_<family>_event.
EventRole(family) ==
    IF family = "review" THEN "reviewer"
    ELSE IF family = "admin" THEN "admin"
    ELSE NULL

\* WebSocketService.broadcast_crawler_event, broadcast_ingest_event,
\* broadcast_review_event, broadcast_check_event, broadcast_admin_event.
broadcast_event(family, event_type, order) ==
    send_event(<<family, event_type>>, NULL, EventRole(family), order)

\* The reply of handle_message: pong, subscription_confirmed with the event
\* types of the message, or an error.
MessageReply(message) ==
    IF message.type = "ping" THEN ReplyMessage("pong", {})
    ELSE IF message.type = "subscribe"
    THEN ReplyMessage("subscription_confirmed", message.event_types)
    ELSE ReplyMessage("error", {})

\* handle_connection receives a message of a connected client and
\* handle_message answers it; handle_subscription keeps nothing.
\*   send_ok: send_text of the reply goes through (else the exception is
\*            logged)
handle_message(websocket, message, send_ok) ==
    /\ nevents + nmessages < MaxEvents
    /\ nmessages' = nmessages + 1
    /\ websocket \in Elements(active_connections)
    /\ received' = IF send_ok
                   THEN [received EXCEPT ![websocket] = Append(@, MessageReply(message))]
                   ELSE received
    /\ subscribed' = IF message.type = "subscribe"
                     THEN [subscribed EXCEPT ![websocket] =
                              [made |-> TRUE, event_types |-> message.event_types,
                               since |-> nevents]]
                     ELSE subscribed
    /\ UNCHANGED <<active_connections, user_connections, role_connections,
                   handlers, sends, nevents, nfaults>>
    /\ UNCHANGED <<pipelineVars, reviewVars, auditVars, checkVars,
                   adminVars, pagingVars>>

-----------------------------------------------------------------------------
(* The pipeline and the review endpoints together *)

Keys == {"k1", "k2"}
InitialKey == "k1"

Init ==
    /\ crawl_queue = <<>>
    /\ ingest_queue = <<>>
    /\ crawl_acks = <<>>
    /\ ingest_acks = <<>>
    /\ crawled_items = <<>>
    /\ vectors = <<>>
    /\ milvus = <<>>
    /\ review_queue = <<>>
    /\ enrich_worker = EnrichIdle
    /\ ingest_worker = IngestIdle
    /\ audit_logs = <<>>
    /\ audit_orig = <<>>
    /\ HMAC_KEY = InitialKey
    /\ verify_log = [audit_id |-> 0, valid |-> FALSE]
    /\ calls = <<>>
    /\ npublished = 0
    /\ nfaults = 0
    /\ ntamper = 0
    /\ cleanup = NoCleanup
    /\ llm_service = NoService
    /\ vertex_global = "none"
    /\ ollama_up = TRUE
    /\ last_check = NoCheck
    /\ primary_failed = NULL
    /\ nchecks = 0
    /\ nswitches = 0
    /\ last_switch = NoSwitch
    /\ check_tasks = <<>>
    /\ llm_status = NoStatus
    /\ model_versions = <<>>
    /\ model_calls = <<>>
    /\ nupdates = 0
    /\ active_connections = <<>>
    /\ user_connections = [u \in {} |-> {}]
    /\ role_connections = [r \in Roles |-> {}]
    /\ handlers = <<>>
    /\ received = [ws \in Sockets |-> <<>>]
    /\ subscribed = [ws \in Sockets |-> NoSubscription]
    /\ nmessages = 0
    /\ sends = <<>>
    /\ nevents = 0
    /\ queue_call = NoQueueCall
    /\ last_page = NoPage
    /\ paged = NotPaged
    /\ npages = 0

\* The review endpoints, with the workers bringing documents in; the
\* dependencies of the workers do not fail here.
Next ==
    \/ PublishCrawl("u1", "hi")
    \/ process_crawled_item(AllFine, TRUE)
    \/ send_to_ingest_queue(TRUE)
    \/ EnrichCallbackAnswer
    \/ \E score \in Scores : process_ingest_item(TRUE, score)
    \/ store_vector(TRUE)
    \/ store_vector_mapping(TRUE)
    \/ add_to_review_queue(TRUE)
    \/ update_item_classification(TRUE)
    \/ IngestCallbackAnswer
    \/ \E user \in Reviewers, rid \in ReviewIdInputs, action \in Actions :
          StartAct(user, rid, action)
    \/ \E i \in 1..MaxCalls : LoadItem(i)
    \/ \E i \in 1..MaxCalls : CommitAct(i)
    \/ \E i \in 1..MaxCalls, audit_ok \in BOOLEAN, error_ok \in BOOLEAN :
          AuditAct(i, audit_ok, error_ok)
    \/ \E user \in Reviewers, rid \in ReviewIdInputs : StartAssign(user, rid)
    \/ \E i \in 1..MaxCalls : CommitAssign(i)
    \/ \E i \in 1..MaxCalls, audit_ok \in BOOLEAN, error_ok \in BOOLEAN :
          AuditAssign(i, audit_ok, error_ok)

Spec == Init /\ [][Next]_vars

\* The two workers on their own, with their dependencies failing.
NextPipeline ==
    \/ \E url \in Urls, lang \in Languages : PublishCrawl(url, lang)
    \/ \E db_ok \in BOOLEAN : process_crawled_item(AllFine, db_ok)
    \/ \E publish_ok \in BOOLEAN : send_to_ingest_queue(publish_ok)
    \/ EnrichCallbackAnswer
    \/ \E select_ok \in BOOLEAN, score \in Scores : process_ingest_item(select_ok, score)
    \/ \E milvus_ok \in BOOLEAN : store_vector(milvus_ok)
    \/ \E side_ok \in BOOLEAN : store_vector_mapping(side_ok)
    \/ \E side_ok \in BOOLEAN : add_to_review_queue(side_ok)
    \/ \E update_ok \in BOOLEAN : update_item_classification(update_ok)
    \/ IngestCallbackAnswer

SpecPipeline == Init /\ [][NextPipeline]_vars

-----------------------------------------------------------------------------
(* The audit log on its own: appends, verification, and what somebody with   *)
(* write access to the table, but without the key, can do to a stored row    *)

EventTypes == {"x", "review_action"}
Values == {"approve", "reject"}

\* Payloads to append: one key, two keys inserted out of sorted order, and
\* a nested dict whose keys are integers, or the strings of these integers,
\* inserted in the order of the integers.
NestedCounts(int_keys) ==
    [int_keys |-> int_keys,
     items |-> IF int_keys THEN << <<2, "approve">>, <<10, "reject">> >>
               ELSE << <<"2", "approve">>, <<"10", "reject">> >>]
AuditPayloads ==
    {<< <<"action", v>> >> : v \in Values}
    \cup {<< <<"note", v>>, <<"action", v>> >> : v \in Values}
    \cup {<< <<NestedKey, NestedCounts(int_keys)>> >> : int_keys \in BOOLEAN}

Reverse(s) == [i \in 1..Len(s) |-> s[Len(s) + 1 - i]]

\* Two payloads hold the same keys with the same values.
SameContent(p, q) ==
    /\ KeysOf(p) = KeysOf(q)
    /\ \A k \in KeysOf(p) : ValueOf(p, k) = ValueOf(q, k)

\* A caller appends an audit entry (create_audit_entry without a session).
AuditAppend(event_type, payload) ==
    /\ Len(audit_logs) < MaxAudit
    /\ create_audit_entry(event_type, payload)
    /\ UNCHANGED <<HMAC_KEY, verify_log, ntamper, cleanup, nfaults>>
    /\ UNCHANGED <<pipelineVars, reviewVars, checkVars, adminVars,
                   busVars, pagingVars>>

\* GET /admin/audit/verify: verify_audit_signature(audit_id)
AuditVerify(audit_id) ==
    /\ verify_log' = [audit_id |-> audit_id, valid |-> verify_audit_signature(audit_id)]
    /\ UNCHANGED <<audit_logs, audit_orig, HMAC_KEY, ntamper, cleanup, nfaults>>
    /\ UNCHANGED <<pipelineVars, reviewVars, checkVars, adminVars,
                   busVars, pagingVars>>

Tampered(row) ==
    /\ ntamper < MaxTamper
    /\ ntamper' = ntamper + 1
    /\ UNCHANGED <<audit_orig, HMAC_KEY, verify_log, cleanup, nfaults>>
    /\ UNCHANGED <<pipelineVars, reviewVars, checkVars, adminVars,
                   busVars, pagingVars>>

\* One value of the stored payload is overwritten.
TamperPayload(audit_id, i, v) ==
    /\ audit_id \in AuditIds
    /\ i \in Indices(audit_logs[audit_id].payload)
    /\ audit_logs[audit_id].payload[i][1] # NestedKey
    /\ v # audit_logs[audit_id].payload[i][2]
    /\ audit_logs' = [audit_logs EXCEPT ![audit_id].payload[i][2] = v]
    /\ Tampered(audit_id)

\* The stored JSON text is rewritten with its keys in another order.
TamperKeyOrder(audit_id) ==
    /\ audit_id \in AuditIds
    /\ Len(audit_logs[audit_id].payload) > 1
    /\ audit_logs' = [audit_logs EXCEPT ![audit_id].payload = Reverse(@)]
    /\ Tampered(audit_id)

\* The event_type column is overwritten.
TamperEventType(audit_id, event_type) ==
    /\ audit_id \in AuditIds
    /\ event_type # audit_logs[audit_id].event_type
    /\ audit_logs' = [audit_logs EXCEPT ![audit_id].event_type = event_type]
    /\ Tampered(audit_id)

\* The signature column is overwritten with the signature of another row.
TamperSignature(audit_id, from) ==
    /\ audit_id \in AuditIds /\ from \in AuditIds
    /\ audit_logs[from].signature # audit_logs[audit_id].signature
    /\ audit_logs' = [audit_logs EXCEPT ![audit_id].signature = audit_logs[from].signature]
    /\ Tampered(audit_id)

Days == {30, 365}                \* Query(default=365, ge=30, le=3650)

AuditCleanupPayload(deleted_count, days) ==
    << <<"deleted_count", ToString(deleted_count)>>,
       <<"retention_days", ToString(days)>>, <<"cleaned_by", Admin>> >>

\* DELETE /admin/audit/cleanup up to the end of cleanup_old_audit_logs, whose
\* session commits the DELETE.
\*   older: how many rows of the table are older than the days to retain
cleanup_audit_logs(days, older) ==
    /\ cleanup.pc = "idle" /\ cleanup.made < MaxCleanups
    /\ older \in 0..Len(audit_logs)
    /\ audit_logs' = cleanup_old_audit_logs(older)
    /\ cleanup' = [pc |-> "deleted", deleted_count |-> Cardinality(RowsBefore(older)),
                   days |-> days, made |-> cleanup.made + 1]
    /\ UNCHANGED <<audit_orig, HMAC_KEY, verify_log, ntamper, nfaults>>
    /\ UNCHANGED <<pipelineVars, reviewVars, checkVars, adminVars,
                   busVars, pagingVars>>

\* DELETE /admin/audit/cleanup after the DELETE: its audit entry, written in
\* a session of its own; when that raises, general_exception_handler tries
\* to append an 'error' entry.
AuditCleanup(audit_ok, error_ok) ==
    /\ cleanup.pc = "deleted"
    /\ audit_ok => error_ok
    /\ Fault(Failed(audit_ok) + Failed(error_ok))
    /\ IF audit_ok
       THEN create_audit_entry("audit_cleanup",
                               AuditCleanupPayload(cleanup.deleted_count, cleanup.days))
       ELSE IF error_ok
       THEN create_audit_entry("error", ErrorPayload("admin/audit/cleanup", "DELETE"))
       ELSE UNCHANGED <<audit_logs, audit_orig>>
    /\ cleanup' = [cleanup EXCEPT !.pc = "idle"]
    /\ UNCHANGED <<HMAC_KEY, verify_log, ntamper>>
    /\ UNCHANGED <<pipelineVars, reviewVars, checkVars, adminVars,
                   busVars, pagingVars>>

\* The key is rotated: the process restarts with another HMAC_KEY in its
\* environment.
RestartWithKey(key) ==
    /\ HMAC_KEY = InitialKey
    /\ key # HMAC_KEY
    /\ HMAC_KEY' = key
    /\ UNCHANGED <<audit_logs, audit_orig, verify_log, ntamper, cleanup, nfaults>>
    /\ UNCHANGED <<pipelineVars, reviewVars, checkVars, adminVars,
                   busVars, pagingVars>>

NextAudit ==
    \/ \E payload \in AuditPayloads : AuditAppend("x", payload)
    \/ \E audit_id \in 1..(MaxAudit + 1) : AuditVerify(audit_id)
    \/ \E audit_id \in 1..MaxAudit, i \in 1..2, v \in Values :
          TamperPayload(audit_id, i, v)
    \/ \E audit_id \in 1..MaxAudit : TamperKeyOrder(audit_id)
    \/ \E audit_id \in 1..MaxAudit, event_type \in EventTypes :
          TamperEventType(audit_id, event_type)
    \/ \E audit_id \in 1..MaxAudit, from \in 1..MaxAudit :
          TamperSignature(audit_id, from)
    \/ \E key \in Keys : RestartWithKey(key)

SpecAudit == Init /\ [][NextAudit]_vars

\* The audit log under one key, with the cleanup endpoint removing rows.
NextRetention ==
    \/ \E payload \in AuditPayloads : AuditAppend("x", payload)
    \/ \E audit_id \in 1..(MaxAudit + 1) : AuditVerify(audit_id)
    \/ \E audit_id \in 1..MaxAudit, i \in 1..2, v \in Values :
          TamperPayload(audit_id, i, v)
    \/ \E audit_id \in 1..MaxAudit : TamperKeyOrder(audit_id)
    \/ \E audit_id \in 1..MaxAudit, event_type \in EventTypes :
          TamperEventType(audit_id, event_type)
    \/ \E audit_id \in 1..MaxAudit, from \in 1..MaxAudit :
          TamperSignature(audit_id, from)
    \/ \E days \in Days, older \in 0..MaxAudit : cleanup_audit_logs(days, older)
    \/ \E audit_ok \in BOOLEAN, error_ok \in BOOLEAN : AuditCleanup(audit_ok, error_ok)

SpecRetention == Init /\ [][NextRetention]_vars

-----------------------------------------------------------------------------
(* The check endpoint and the LLM services *)

RequestLanguages == {"auto", "en", "hi"}
Claims == {[present |-> TRUE, len |-> 1, lang |-> l] : l \in Languages}
BadClaims ==
    {[present |-> FALSE, len |-> 0, lang |-> "en"],
     [present |-> TRUE, len |-> 0, lang |-> "en"],
     [present |-> TRUE, len |-> MaxClaimLength + 1, lang |-> "en"]}
\* Languages the pattern does not match, and languages outside the five codes
\* that it matches.
OtherLanguages == {"fr", "", "en" \o Newline, "auto" \o Newline}
CheckBodies ==
    [language : RequestLanguages, claim : Claims]
    \cup [language : {"en"}, claim : BadClaims]
    \cup [language : OtherLanguages,
          claim : {[present |-> TRUE, len |-> 1, lang |-> "en"]}]
Constructions == {"raise", "nomodel", "loaded"}
\* How the construction of get_unified_llm_service goes: nothing is
\* constructed when the service or the Vertex AI singleton is there already.
UnifiedConstructions ==
    IF llm_service.made \/ vertex_global # "none" THEN {"loaded"} ELSE Constructions

NextCheck ==
    \/ \E body \in CheckBodies, construction \in Constructions, text \in LLMTexts :
          nchecks < MaxCheckOnly /\ post_check(body, construction, text)
    \/ \E t \in 1..MaxChecks, audit_ok \in BOOLEAN, error_ok \in BOOLEAN :
          CheckAuditTask(t, audit_ok, error_ok)
    \/ OllamaFlips

SpecCheck == Init /\ [][NextCheck]_vars

(* The check endpoint with the admin routes: provider status, provider     *)
(* switch and audit cleanup                                                *)

\* Routing does not look at the request or at what the model answers beyond
\* whether it answers: one valid body, a failed call and a full answer.
RoutingBodies == {b \in CheckBodies : b.language = "en" /\ CheckRequestValidates(b)
                                      /\ b.claim.lang = "en"}
RoutingTexts == {t \in LLMTexts : t.kind = "none" \/ (t.kind = "json" /\ t.body = FullAnswer)}

NextLLM ==
    \/ \E body \in RoutingBodies, construction \in Constructions, text \in RoutingTexts :
          post_check(body, construction, text)
    \/ \E t \in 1..MaxChecks, audit_ok \in BOOLEAN, error_ok \in BOOLEAN :
          CheckAuditTask(t, audit_ok, error_ok)
    \/ \E construction \in Constructions, up2 \in BOOLEAN :
          get_llm_status(construction, up2)
    \/ \E provider \in Providers, audit_ok \in BOOLEAN :
          \E c1 \in UnifiedConstructions, c2 \in Constructions, c3 \in Constructions,
             u2 \in BOOLEAN, u3 \in BOOLEAN :
             switch_llm_provider_endpoint(provider, <<c1, c2, c3>>,
                                          <<ollama_up, u2, u3>>, audit_ok)
    \/ \E older \in 0..MaxAudit : cleanup_audit_logs(365, older)
    \/ \E audit_ok \in BOOLEAN, error_ok \in BOOLEAN : AuditCleanup(audit_ok, error_ok)
    \/ OllamaFlips

SpecLLM == Init /\ [][NextLLM]_vars

-----------------------------------------------------------------------------
(* Model-configuration updates *)

NextAdmin ==
    \/ \E model_update \in ModelUpdates : StartModelUpdate(model_update)
    \/ \E i \in 1..MaxUpdates : FinishModelUpdate(i)
    \/ \E i \in 1..MaxUpdates, audit_ok \in BOOLEAN, error_ok \in BOOLEAN :
          ModelUpdateAuditTask(i, audit_ok, error_ok)

SpecAdmin == Init /\ [][NextAdmin]_vars

-----------------------------------------------------------------------------
(* The enrichment worker with what its steps can meet *)

NextEnrich ==
    \/ \E url \in Urls, lang \in Languages : PublishCrawl(url, lang)
    \/ \E steps \in EnrichSteps, db_ok \in BOOLEAN : process_crawled_item(steps, db_ok)
    \/ \E publish_ok \in BOOLEAN : send_to_ingest_queue(publish_ok)
    \/ EnrichCallbackAnswer

SpecEnrich == Init /\ [][NextEnrich]_vars

-----------------------------------------------------------------------------
(* The ingest worker with scores on both sides of each threshold *)

IngestLanguages == {"en", "hi", "kn"}
IngestScores == {59, 60, 89, 90, 91, 92}

NextIngest ==
    \/ \E lang \in IngestLanguages : PublishCrawl("u1", lang)
    \/ process_crawled_item(AllFine, TRUE)
    \/ send_to_ingest_queue(TRUE)
    \/ EnrichCallbackAnswer
    \/ \E select_ok \in BOOLEAN, score \in IngestScores :
          process_ingest_item(select_ok, score)
    \/ \E milvus_ok \in BOOLEAN : store_vector(milvus_ok)
    \/ \E side_ok \in BOOLEAN : store_vector_mapping(side_ok)
    \/ \E side_ok \in BOOLEAN : add_to_review_queue(side_ok)
    \/ \E update_ok \in BOOLEAN : update_item_classification(update_ok)
    \/ IngestCallbackAnswer

SpecIngest == Init /\ [][NextIngest]_vars

-----------------------------------------------------------------------------
(* Paging through the review queue while the ingest worker and an assign   *)
(* request go on changing it. The documents are fetched and enriched before *)
(* the client asks for its first page.                                      *)

Limits == {1, 2}
StatusFilters == {"pending", "in_review", NULL}
AssigneeFilters == {"alice", NULL}
PagingScores == {70, 85}

NextPaging ==
    \/ npages = 0 /\ PublishCrawl("u1", "en")
    \/ npages = 0 /\ process_crawled_item(AllFine, TRUE)
    \/ npages = 0 /\ send_to_ingest_queue(TRUE)
    \/ npages = 0 /\ EnrichCallbackAnswer
    \/ \E score \in PagingScores : process_ingest_item(TRUE, score)
    \/ add_to_review_queue(TRUE)
    \/ update_item_classification(TRUE)
    \/ IngestCallbackAnswer
    \/ calls = <<>> /\ \E rid \in ReviewIdInputs : StartAssign("alice", rid)
    \/ \E i \in 1..MaxCalls : CommitAssign(i)
    \/ \E i \in 1..MaxCalls : AuditAssign(i, TRUE, TRUE)
    \/ \E limit \in Limits, status \in StatusFilters, assigned_to \in AssigneeFilters :
          get_review_queue(limit, NULL, status, assigned_to)
    \/ /\ last_page.cursor # NULL
       /\ get_review_queue(paged.limit, last_page.cursor, paged.status,
                           paged.assigned_to)
    \/ count_total_pending

SpecPaging == Init /\ [][NextPaging]_vars

-----------------------------------------------------------------------------
(* The event bus *)

\* Inbound messages: a ping, two subscriptions and a message of no known type.
Messages ==
    {[type |-> "ping", event_types |-> {}],
     [type |-> "subscribe", event_types |-> {<<"ingest", "completed">>}],
     [type |-> "subscribe", event_types |-> {<<"review", "queued">>, <<"admin", "alert">>}],
     [type |-> "other", event_types |-> {}]}

\* Every order in which some connections can be iterated.
Orders == UNION {Enumerations(set) : set \in SUBSET Sockets}

NextBus ==
    \/ \E client \in Clients : connect(client.user_id, client.role)
    \/ \E websocket \in Sockets, client_state \in ClientStates :
          disconnect(websocket, client_state)
    \/ \E event_type \in BusEventTypes, order \in Orders :
          broadcast_event(event_type[1], event_type[2], order)
    \/ \E event \in 1..MaxEvents, send_ok \in BOOLEAN :
          send_personal_message(event, send_ok)
    \/ \E websocket \in Sockets, message \in Messages, send_ok \in BOOLEAN :
          handle_message(websocket, message, send_ok)

SpecBus == Init /\ [][NextBus]_vars

-----------------------------------------------------------------------------
(* Properties of the review endpoints *)

\* The declared state diagram of a review entry.
Diagram ==
    {<<"pending", "in_review">>, <<"in_review", "approved">>,
     <<"in_review", "rejected">>, <<"in_review", "escalated">>,
     <<"pending", "escalated">>}

IsApprove(i) == calls[i].op = "act" /\ calls[i].action = "approve"

\* Calls i and j are approve requests of two reviewers on one review entry
\* that was pending when the first of them read it, both are answered, and
\* no other request touched the entry.
ApproveRace(i, j) ==
    /\ i < j
    /\ IsApprove(i) /\ IsApprove(j)
    /\ calls[i].user # calls[j].user
    /\ calls[i].rid = calls[j].rid
    /\ calls[i].rid \in Indices(review_queue)
    /\ calls[i].seen.status = "pending"
    /\ calls[i].pc = "done" /\ calls[j].pc = "done"
    /\ \A k \in Indices(calls) : k \notin {i, j} => calls[k].rid # calls[i].rid

\* C1: two reviewers approve the same pending entry, in any interleaving and
\* with no dependency failing: one request succeeds, the other is refused as
\* a conflict (a 4xx), and the entry ends approved.
C1_OneApproveOneConflict ==
    \A i, j \in Indices(calls) :
        (ApproveRace(i, j) /\ nfaults = 0) =>
            /\ {calls[i].result, calls[j].result} = {"200", "400"}
            /\ review_queue[calls[i].rid].status = "approved"

\* C2: every change of a review entry's status follows an edge of the
\* declared diagram.
C2_TransitionsFollowDiagram ==
    [][\A r \in Indices(review_queue) :
          review_queue'[r].status # review_queue[r].status
              => <<review_queue[r].status, review_queue'[r].status>> \in Diagram]_vars

VectorRowsOf(doc_id) == {v \in Indices(vectors) : vectors[v].doc_id = doc_id}
MilvusEntriesOf(doc_id) == {m \in Indices(milvus) : milvus[m].doc_id = doc_id}

\* C3: every crawled item labelled scam has a row in vectors.
C3_ScamHasVector ==
    \A d \in Indices(crawled_items) :
        crawled_items[d].label = "scam" => VectorRowsOf(d) # {}

\* C7: at most one row of vectors, and one Milvus entity, per document.
C7_OneVectorPerDoc ==
    \A d \in Indices(crawled_items) :
        /\ Cardinality(VectorRowsOf(d)) <= 1
        /\ Cardinality(MilvusEntriesOf(d)) <= 1

ItemsOf(url) == {d \in Indices(crawled_items) : crawled_items[d].url = url}
Processed(acked, url) ==
    Cardinality({a \in Indices(acked) : acked[a].url = url /\ acked[a].answer = "ack"})

\* C8: once two crawl messages of one URL have gone through enrichment and
\* ingest, the latest crawled item of the URL holds the contents of the later
\* fetch and at most one row of vectors belongs to the URL.
C8_ReEnrichIdempotent ==
    \A url \in Urls :
        (Processed(crawl_acks, url) = 2 /\ Processed(ingest_acks, url) = 2) =>
            /\ \A d \in ItemsOf(url) :
                 crawled_items[d].clean_text.v <= crawled_items[LatestItem(url)].clean_text.v
            /\ Cardinality(UNION {VectorRowsOf(d) : d \in ItemsOf(url)}) <= 1

\* C9: an assign request that goes through finds the entry pending (or already
\* in review) and free or the caller's own, and leaves it in review and
\* assigned to the caller; a refused one changes nothing.
C9_AssignAtomic ==
    [][\A i \in Indices(calls) :
          (calls[i].op = "assign" /\ calls[i].pc = "loaded"
              /\ calls'[i].pc = "committed") =>
              /\ review_queue[calls[i].rid].assigned_to \in {NULL, calls[i].user}
              /\ review_queue[calls[i].rid].status \in {"pending", "in_review"}
              /\ review_queue'[calls[i].rid].status = "in_review"
              /\ review_queue'[calls[i].rid].assigned_to = calls[i].user]_vars

ApproveAudits(rid) ==
    {a \in Indices(audit_logs) :
        /\ audit_logs[a].event_type = "review_action"
        /\ ValueOf(audit_logs[a].payload, "action") = "approve"
        /\ ValueOf(audit_logs[a].payload, "review_id") = ToString(rid)}

\* C10: two reviewers approve the same pending entry, no dependency failing:
\* one review_action audit row with action approve and one vector for the
\* document.
C10_OneAuditOneUpsert ==
    \A i, j \in Indices(calls) :
        (ApproveRace(i, j) /\ nfaults = 0) =>
            /\ Cardinality(ApproveAudits(calls[i].rid)) = 1
            /\ Cardinality(MilvusEntriesOf(review_queue[calls[i].rid].doc_id)) = 1

-----------------------------------------------------------------------------
(* Properties of the check endpoint *)

\* C4: the verdict of every check response is one of the five verdicts.
C4_VerdictInEnum == last_check.status = "200" => last_check.verdict \in Verdicts

-----------------------------------------------------------------------------
(* Properties of the audit log *)

KeyUnchanged(audit_id) == audit_orig[audit_id].key = HMAC_KEY
RowUnchanged(audit_id) == audit_logs[audit_id] = audit_orig[audit_id].row
ContentUnchanged(audit_id) ==
    SameContent(audit_logs[audit_id].payload, audit_orig[audit_id].row.payload)
SignatureUnchanged(audit_id) ==
    audit_logs[audit_id].signature = audit_orig[audit_id].row.signature

StringKeys(audit_id) ==
    \A i \in Indices(audit_orig[audit_id].payload) :
        audit_orig[audit_id].payload[i][1] = NestedKey
            => ~audit_orig[audit_id].payload[i][2].int_keys

C6_AppendThenVerify ==
    \A a \in Indices(audit_logs) :
        (KeyUnchanged(a) /\ RowUnchanged(a)) => verify_audit_signature(a)

-----------------------------------------------------------------------------
(* Further properties of the review endpoints and the ingest worker *)

ReviewStatuses == {"pending", "in_review", "approved", "rejected", "escalated"}

\* C11: the status of every review entry is one of pending, in_review,
\* approved, rejected, escalated.
C11_StatusInEnum ==
    \A r \in Indices(review_queue) : review_queue[r].status \in ReviewStatuses

\* C12: every crawled item labelled benign or scam has a classifier score.
C12_LabelledHasScore ==
    \A d \in Indices(crawled_items) :
        crawled_items[d].label \in {"benign", "scam"}
            => crawled_items[d].classifier_score # NullScore

\* C14: no review request ends in a server error because its audit entry
\* could not be appended: every answered request reports its own result.
C14_AuditFailureNeverAborts ==
    \A i \in Indices(calls) :
        calls[i].pc = "done" => calls[i].result \in {"200", "400", "404"}

-----------------------------------------------------------------------------
(* Further properties of the check endpoint and the LLM services *)

\* C15: a valid check request is answered with a response, and on every
\* fallback path (no provider available, provider call raising, empty or
\* unparseable model output, error while assembling the response) the response
\* carries verdict UNVERIFIED with trust_score 0 and confidence 0.
C15_FallbackIsUnverified ==
    (nchecks > 0 /\ CheckRequestValidates(last_check.request)) =>
        /\ last_check.status = "200"
        /\ last_check.path # "answer" =>
               /\ last_check.verdict = "UNVERIFIED"
               /\ last_check.trust_score = 0
               /\ last_check.confidence = 0

\* A check was answered while no provider was available.
C15_Witness ==
    /\ last_check.status = "200"
    /\ last_check.path = "unavailable"
    /\ last_check.verdict = "UNVERIFIED"

\* C16: the request that meets the first failure of the selected provider is
\* answered UNVERIFIED, and no later check is routed to that provider until a
\* switch request.
C16_StickyFallback ==
    [][nchecks' = nchecks + 1 =>
          /\ (primary_failed = NULL /\ primary_failed' # NULL)
                 => last_check'.verdict = "UNVERIFIED"
          /\ primary_failed # NULL => last_check'.routed # primary_failed]_vars

LastAudit(logs) == logs[Len(logs)]

\* C17: every step that changes the selected provider appends an
\* llm_provider_switch audit entry naming the provider selected after it.
C17_SwitchesAreAudited ==
    [][llm_service'.provider # llm_service.provider =>
          /\ Len(audit_logs') = Len(audit_logs) + 1
          /\ LastAudit(audit_logs').event_type = "llm_provider_switch"
          /\ ValueOf(LastAudit(audit_logs').payload, "new_provider")
                 = llm_service'.provider]_vars

\* C18: the retrieved_ids of every check response are the ids of the evidence
\* handed to the LLM, in that order, and at most six.
C18_RetrievedIdsAreShown ==
    last_check.status = "200" =>
        /\ last_check.retrieved_ids = last_check.shown
        /\ Len(last_check.retrieved_ids) <= TopK

\* The requests C19 is about: claim_text empty or missing, or a language
\* outside auto, hi, ta, kn, en.
InvalidInput(body) ==
    \/ ~body.claim.present
    \/ body.claim.len = 0
    \/ body.language \notin {"auto", "hi", "ta", "kn", "en"}

\* C19: a check request with invalid input is rejected with a validation
\* error, schedules and writes no audit entry and calls no LLM.
C19_InvalidInputRejected ==
    [][(nchecks' = nchecks + 1 /\ InvalidInput(last_check'.request)) =>
          /\ last_check'.status = "422"
          /\ last_check'.routed = NULL
          /\ audit_logs' = audit_logs
          /\ check_tasks' = check_tasks
          /\ llm_service' = llm_service
          /\ vertex_global' = vertex_global]_vars

\* C13: after any sequence of model-configuration updates, concurrent ones
\* included, at most one ModelVersion row is active, and every update has
\* added a row of its own without changing the configuration of a row that
\* was there.
AtMostOneActive == Cardinality(ActiveModelIds(model_versions)) <= 1
C13_AtMostOneActive ==
    /\ AtMostOneActive
    /\ Len(model_versions) = Cardinality({i \in Indices(model_calls) :
                                             model_calls[i].pc \in {"committed", "done"}})

\* C20: when the send of an event to some connection fails, that connection
\* is in no routing table afterwards, and when the last send of an event is
\* behind it, every other connection it was sent to and that is still
\* connected has received it.
InTables(ws) ==
    \/ ws \in Elements(active_connections)
    \/ \E u \in DOMAIN user_connections : ws \in user_connections[u]
    \/ \E r \in DOMAIN role_connections : ws \in role_connections[r]
HasEvent(ws, event) ==
    \E k \in Indices(received[ws]) :
        received[ws][k].type = "event" /\ received[ws][k].event = event
C20_FailedSendDropsConnection ==
    [][\A e \in Indices(sends) :
          /\ sends'[e].failed # sends[e].failed =>
                \A ws \in sends'[e].failed : ~InTables(ws)'
          /\ (sends[e].pending # <<>> /\ sends'[e].pending = <<>>) =>
                \A ws \in sends'[e].targets \ sends'[e].failed :
                    ws \in Elements(active_connections) => HasEvent(ws, e)']_vars

\* C21: in every step a connection is delivered an event only while it is
\* registered (it has not been disconnected), a review:* event only if it is
\* registered with the role reviewer, and an admin:* event only if it is
\* registered with the role admin.
LastReceived(ws) == received[ws][Len(received[ws])]
GetsEvent(ws) ==
    /\ Len(received'[ws]) = Len(received[ws]) + 1
    /\ LastReceived(ws)'.type = "event"
C21_EventsReachTheirRoleOnly ==
    [][\A ws \in Sockets :
          GetsEvent(ws) =>
             /\ ws \in Elements(active_connections)
             /\ LastReceived(ws)'.event_type[1] = "review" =>
                   handlers[ws].role = "reviewer"
             /\ LastReceived(ws)'.event_type[1] = "admin" =>
                   handlers[ws].role = "admin"]_vars
\* C22: the reply to a subscribe message is subscription_confirmed with the
\* event types of the message, and a connection that has subscribed is
\* delivered, of the events sent after its subscription, those of the event
\* types it subscribed to only.
C22_SubscriptionScopesDelivery ==
    [][\A ws \in Sockets :
          /\ (subscribed'[ws] # subscribed[ws]
                 /\ Len(received'[ws]) = Len(received[ws]) + 1) =>
                /\ LastReceived(ws)'.type = "subscription_confirmed"
                /\ LastReceived(ws)'.event_types = subscribed'[ws].event_types
          /\ (/\ GetsEvent(ws)
              /\ subscribed[ws].made
              /\ LastReceived(ws)'.event > subscribed[ws].since) =>
                LastReceived(ws)'.event_type \in subscribed[ws].event_types]_vars

\* C23: for every answered ingest.queue message, the update of the crawled
\* item and the accompanying insert of a Vector row (scam) or of a
\* review-queue entry (review) are both committed or both not: a nacked message
\* has left no insert behind, and an acked message of a scam or review item
\* has its insert.
C23_IngestWritesAtomic ==
    \A a \in Indices(ingest_acks) :
        /\ ingest_acks[a].answer = "nack" => ~ingest_acks[a].side_written
        /\ (/\ ingest_acks[a].answer = "ack"
            /\ ingest_acks[a].label \in {"scam", "pending"})
              => ingest_acks[a].side_written

\* C24: a message during whose processing the vector insert, the Vector-row
\* insert or the review-queue insert failed is nacked, never acked, and a
\* check_error audit event is recorded by the time it is answered.
C24_InsertFailureNacksAndAudits ==
    \A a \in Indices(ingest_acks) :
        ingest_acks[a].insert_failed =>
            /\ ingest_acks[a].answer = "nack"
            /\ \E r \in AuditIds : audit_logs[r].event_type = "check_error"

\* C25: every crawl.items message that was acked has been published to
\* ingest.queue.
C25_AckOnlyAfterForward ==
    \A i \in Indices(crawl_acks) :
        crawl_acks[i].answer = "ack" => crawl_acks[i].forwarded

\* C26: a crawl.items message is nacked exactly when storing the crawled item
\* failed; whatever steps 1 to 8 met, every other message is acked and, once
\* the worker has answered, has stored one item.
AckedCrawls == {i \in Indices(crawl_acks) : crawl_acks[i].answer = "ack"}
C26_OnlyPersistFailureNacks ==
    /\ \A i \in Indices(crawl_acks) :
          crawl_acks[i].answer = "nack" <=> crawl_acks[i].persist_failed
    /\ enrich_worker.pc = "idle" => Len(crawled_items) = Cardinality(AckedCrawls)

\* C27: in every step in which the ingest worker commits the label of an
\* item, with s the classifier score and t the threshold of the language of
\* the message (0.92 for en, 0.90 for hi, ta and kn), the label is scam iff
\* s >= t, pending iff 0.6 <= s < t and benign iff s < 0.6; and a step of the
\* ingest worker writes a vector (to Milvus or to the table vectors) only if
\* s >= t.
StatedThreshold(language) ==
    IF language = "en" THEN 92
    ELSE IF language \in {"hi", "ta", "kn"} THEN 90
    ELSE 0
CommitsLabel == ingest_worker.pc # "updated" /\ ingest_worker'.pc = "updated"
C27_LabelFollowsThreshold ==
    [][LET s == ingest_worker.score
           t == StatedThreshold(ingest_worker.language)
           label == crawled_items'[ingest_worker.doc_id].label
       IN
       /\ CommitsLabel =>
             /\ label = "scam" <=> s >= t
             /\ label = "pending" <=> (60 <= s /\ s < t)
             /\ label = "benign" <=> s < 60
       /\ (vectors' # vectors \/ milvus' # milvus) => s >= t]_vars
LabelledAs(language, score, label, with_vector) ==
    \E d \in Indices(crawled_items) :
        /\ crawled_items[d].language = language
        /\ crawled_items[d].classifier_score = score
        /\ crawled_items[d].label = label
        /\ with_vector <=> \E v \in Indices(vectors) : vectors[v].doc_id = d
C27_Witness ==
    /\ LabelledAs("en", 92, "scam", TRUE)
    /\ LabelledAs("en", 91, "pending", FALSE)

\* C28: an answered message of the ingest worker on a document it found has
\* appended a review-queue entry exactly when 0.6 <= score < threshold, and by
\* then a review:queued event has been sent; in the step that appends the
\* entry, it has status pending and priority 5 if score > 0.8, otherwise 3.
LastIngestAck == ingest_acks[Len(ingest_acks)]
QueuedForReview(ack) == ack.side_written /\ ack.label = "pending"
C28_ReviewEntryAndEvent ==
    [][LET s == ingest_worker.score
           t == StatedThreshold(ingest_worker.language)
           entry == review_queue'[Len(review_queue')]
       IN
       /\ (Len(ingest_acks') = Len(ingest_acks) + 1 /\ ingest_worker.doc_id # 0) =>
             /\ QueuedForReview(LastIngestAck') <=> (60 <= s /\ s < t)
             /\ QueuedForReview(LastIngestAck') =>
                   \E e \in Indices(sends') : sends'[e].type = <<"review", "queued">>
       /\ Len(review_queue') = Len(review_queue) + 1 =>
             /\ 60 <= s /\ s < t
             /\ entry.doc_id = ingest_worker.doc_id
             /\ entry.status = "pending"
             /\ entry.priority = IF s > 80 THEN 5 ELSE 3]_vars

\* C29: in every provider switch, a returned True comes with the requested
\* provider active and available after the call, and a returned False comes
\* with the provider that was active before the call still active.
C29_SwitchReportsActiveProvider ==
    [][nswitches' = nswitches + 1 =>
          LET sw == last_switch' IN
          /\ sw.success =>
                /\ llm_service'.provider = sw.requested
                /\ UnifiedAvailable(llm_service', vertex_global', ollama_up')
          /\ ~sw.success => llm_service'.provider = sw.before]_vars

\* The review ids of all pages the client got, in the order it got them.
RECURSIVE Concatenation(_)
Concatenation(pages) ==
    IF pages = <<>> THEN <<>> ELSE Head(pages) \o Concatenation(Tail(pages))

PagingComplete ==
    paged.pages # <<>> /\ queue_call.pc = "idle" /\ last_page.cursor = NULL

\* Nothing has changed the review queue since the client's paging started.
NoConcurrentChange == paged.seen = review_queue

\* C30: once paging with the returned cursors has reached the last page, with
\* no change of the queue on the way, every entry matching the filter was
\* returned exactly once and the pages together are ordered by priority
\* descending, then creation time ascending.
C30_PagingReturnsEachEntryOnce ==
    (PagingComplete /\ NoConcurrentChange) =>
        LET all == Concatenation(paged.pages) IN
        /\ \A rid \in Indices(review_queue) :
              MatchesFilter(rid, paged.status, paged.assigned_to)
                  => Cardinality({i \in Indices(all) : all[i] = rid}) = 1
        /\ \A i \in Indices(all) :
              MatchesFilter(all[i], paged.status, paged.assigned_to)
        /\ \A i, j \in Indices(all) : i < j => OrderedBefore(all[i], all[j])

====
